---- MODULE Spec2Model ----
(***************************************************************************)
(* Deployment and transaction-lifecycle orchestrator.                      *)
(*                                                                         *)
(* eth.Client (DeployContract, CompileContract, GetTransactionStatus) and  *)
(* the contracts.Service handlers that call it (DeployContract,            *)
(* GetDeploymentStatus, DeleteContract), running against a chain node, a   *)
(* contract-record store and the clock that expires the contexts.          *)
(***************************************************************************)
EXTENDS Integers, Sequences, FiniteSets, TLC

(***************************************************************************)
(* Bounds of the model                                                     *)
(***************************************************************************)
\* deployment requests in flight (each runs Client.DeployContract once)
NumReqs == 2
\* status callers (each calls GetTransactionStatus again and again)
NumPollers == 2
\* gas prices the node may suggest: 1..MaxGasPrice
MaxGasPrice == 2
\* blocks the chain may produce that include none of the modelled transactions
MaxEmptyBlocks == 1
\* callers of CompileContract at a time (each has its own temporary file)
NumCompilers == 2
\* callers of the record handlers (create, update, delete) at a time
NumStoreCallers == 2
\* the latest time the clock shows
MaxNow == 1
\* login and register calls of the browser at a time
NumAuthCalls == 2
\* contract-list fetches that wait for their response at a time
MaxInFlight == 2
\* what the user of the browser does: submits of a form and logouts
MaxUserActions == 3

(***************************************************************************)
(* Program constants                                                       *)
(***************************************************************************)
\* service.go:318  chainID = 1 when the request leaves it 0
DefaultChainID == 1
\* service.go:324  gasLimit = 4000000 when the request leaves it 0
DefaultGasLimit == 4000000
\* service.go:294  context.WithTimeout(..., 5*time.Second) for the store
DbTimeoutSec == 5
\* service.go:328  context.WithTimeout(..., 2*time.Minute) for the deployment
DeployTimeoutSec == 120
\* part_002:346  weiPerEth = 1e18, kept as its decimal exponent
WeiPerEthExp == 18
\* part_002:411  the width of the unsigned words of Uint64() arithmetic,
\* scaled down from 64: every block number here is far below 2^WordBits
WordBits == 16
WordModulus == 2 ^ WordBits

Reqs == 1..NumReqs
Pollers == 1..NumPollers
Compilers == 1..NumCompilers
GasPrices == 1..MaxGasPrice

\* users that send requests; the contract record belongs to the first
OwnerId == "alice"
UserIds == {"alice", "bob"}
\* the contract record the requests name
ContractIds == {1}
\* the ids that uuid.New() gives to records created later
NewContractIds == {2}
RecordIds == ContractIds \cup NewContractIds
StoreCallers == 1..NumStoreCallers
\* chain identities a node (and so the connector) may have
NodeChainIDs == {1, 5}
\* chain_id values a request may carry (0 = left out)
ChainHints == {0}
\* ChainID values a direct caller of Client.DeployContract may pass
ClientChainIDs == {0, 1, 5}
\* gas_limit values a request may carry (0 = left out)
GasLimitInputs == {0}
\* GasLimit values a direct caller of Client.DeployContract may pass
ClientGasLimits == {DefaultGasLimit, 3000000}
\* gas a mined deployment may have used
GasUsedValues == {21}
\* ConstructorArguments a direct caller may pass: none, an empty JSON array,
\* one boolean, one number, and text that is not JSON
CtorArgs == {"", "[]", "[true]", "[7]", "["}

(***************************************************************************)
(* The compiler toolchain (external): what solc yields for each source     *)
(***************************************************************************)
Sources == {"bad", "zero", "token"}
\* further sources: two contracts, one contract of another code, and an
\* interface alone (solc gives an interface an empty bin)
MoreSources == {"pair", "vault", "iface"}
AllSources == Sources \cup MoreSources

\* contract names, as sequences of characters
TokenName == <<"T", "o", "k">>
VaultName == <<"V", "l", "t">>
IfaceName == <<"I", "f">>
\* no name given
NoName == << >>
\* contractName values a caller may give: none, part of TokenName, a
\* letter that VaultName has in this case and TokenName only in the other,
\* and one that no name has
NameHints == {NoName, <<"o", "k">>, <<"t">>, <<"X">>}

\* creation bytecode (solc.Contract.Code): an init part, here the first
\* byte, and the runtime code it returns
TokenCode == <<96, 128>>
VaultCode == <<96, 64>>
\* sources that compile to contracts with code
DeployableSources == {"token", "vault", "pair"}
\* the address of a contract that somebody else deployed, and the codes the
\* node may hold there
OtherAddress == 99
OtherCodes == {<< >>, <<96>>, <<96, 128>>, <<96, 128, 7>>}

\* solc.CompileSolidity on a source: an error, or a map name -> bytecode
SolcOutput(src) ==
    CASE src = "bad"   -> [err |-> TRUE,  contracts |-> << >>]
      [] src = "zero"  -> [err |-> FALSE, contracts |-> << >>]
      [] src = "token" -> [err |-> FALSE,
                           contracts |-> [n \in {TokenName} |-> TokenCode]]
      [] src = "vault" -> [err |-> FALSE,
                           contracts |-> [n \in {VaultName} |-> VaultCode]]
      [] src = "iface" -> [err |-> FALSE,
                           contracts |-> [n \in {IfaceName} |-> << >>]]
      [] src = "pair"  -> [err |-> FALSE,
                           contracts |-> [n \in {TokenName, VaultName} |->
                               IF n = TokenName THEN TokenCode ELSE VaultCode]]

\* the parameter types of the constructor in the artifact's ABI
\* (compiledContract.Info.AbiDefinition, lines 229-239)
CtorInputs(name) == IF name = TokenName THEN <<"bool">> ELSE << >>

(***************************************************************************)
(* State                                                                   *)
(***************************************************************************)
VARIABLES
    clientChainID,      \* Client.chainID, resolved once by NewEthClient
    keySet,             \* whether ETH_PRIVATE_KEY holds a valid key
    records,            \* the contract-record store: id -> record
    accountNonce,       \* node: the sender's next nonce on chain
    mempool,            \* node: pending transactions
    chain,              \* node: mined transactions with their receipts
    height,             \* node: number of the latest block
    emptyBlocks,        \* blocks mined so far that included none of ours
    suggestedGasPrice,  \* node: what SuggestGasPrice answers now
    pc,                 \* per request: where its handler / client call is
    rq,                 \* per request: the request's inputs
    loc,                \* per request: locals of Client.DeployContract
    ctx,                \* per request: which of its contexts have expired
    out,                \* per request: what Client.DeployContract returned
    resp,               \* per request: the HTTP response of the handler
    hist,               \* per request: steps performed, calls finished before
    pl,                 \* per status caller: GetTransactionStatus in progress,
                        \* its last answer, and the parity of its calls so far
    vf,                 \* the last VerifyContractSource call and its answer
    otherCode,          \* node: the code of a contract somebody else deployed
    est,                \* the EstimateDeploymentCost call in progress or last
    cc,                 \* per compiler caller: its CompileContract call
    tmpFiles,           \* the temporary files that exist
    now,                \* the clock that time.Now() reads
    sreq,               \* per store caller: its record request in progress
    born,               \* per record id: _id, owner_id, created_at at creation
    currentUser,        \* AuthProvider: the user, or NoUser for null
    authLoading,        \* AuthProvider: loading
    authError,          \* AuthProvider: error
    localStorage,       \* the browser's stored authToken and user
    location,           \* the route that the router shows
    authCalls,          \* per call: the login or register in progress
    loggedOut,          \* logout ran and no call started after it succeeded
    userActions,        \* the forms the user submitted and the logouts
    dashboard,          \* Dashboard: mounted, and its effect is due
    contractsLoading,   \* ContractsProvider: loading
    listsInFlight       \* listContracts calls that await their response

nodeVars == <<accountNonce, mempool, chain, height, emptyBlocks, suggestedGasPrice>>
reqVars  == <<pc, rq, loc, ctx, out, resp, hist>>
envVars  == <<clientChainID, keySet>>
\* the state of the paths beside deployment and status
\* the state of the record handlers
storeVars == <<now, sreq, born>>
\* the state of the browser
uiVars == <<currentUser, authLoading, authError, localStorage, location,
            authCalls, loggedOut, userActions, dashboard, contractsLoading,
            listsInFlight>>
verifyVars == <<vf, otherCode, est, cc, tmpFiles, now, sreq, born,
                currentUser, authLoading, authError, localStorage, location,
                authCalls, loggedOut, userActions, dashboard,
                contractsLoading, listsInFlight>>
vars     == <<clientChainID, keySet, records, accountNonce, mempool, chain,
              height, emptyBlocks, suggestedGasPrice, pc, rq, loc, ctx, out,
              resp, hist, pl, vf, otherCode, est, cc, tmpFiles, now, sreq,
              born, currentUser, authLoading, authError, localStorage,
              location, authCalls, loggedOut, userActions, dashboard,
              contractsLoading, listsInFlight>>

(***************************************************************************)
(* Values                                                                  *)
(***************************************************************************)
\* TxHash "" of a DeploymentResult that has none
EmptyHash == << >>
\* ContractAddress "" of a DeploymentResult that has none
EmptyAddress == 0

\* a transaction; to = EmptyAddress is the nil recipient of a creation
NoTx == [nonce |-> -1, gasPrice |-> 0, gasLimit |-> 0, value |-> 0,
         chainID |-> 0, data |-> << >>, to |-> EmptyAddress]

\* signedTx.Hash(): fixed by everything that is signed
TxHash(tx) ==
    <<tx.nonce, tx.gasPrice, tx.gasLimit, tx.value, tx.chainID, tx.data, tx.to>>

\* crypto.CreateAddress(sender, nonce), one sender
CreateAddress(nonce) == nonce + 1

\* gasPrice * gasUsed / 1e18, kept exact as wei over 10^WeiPerEthExp
CostInEth(gasPrice, gasUsed) == [wei |-> gasPrice * gasUsed, exp |-> WeiPerEthExp]
ZeroCost == [wei |-> 0, exp |-> WeiPerEthExp]

\* the zero value of DeploymentResult
ZeroResult == [TxHash |-> EmptyHash, ContractAddress |-> EmptyAddress,
               BlockNumber |-> 0, GasUsed |-> 0, GasPrice |-> 0, Cost |-> ZeroCost]

NoReturn == [ret |-> "none", err |-> "", res |-> ZeroResult]
NoResponse == [code |-> 0, error |-> "", txHash |-> EmptyHash,
               contractAddress |-> EmptyAddress]
\* a request: what the caller asked (contractID, deployerID, chainHint,
\* callerName) and what reaches Client.DeployContract as its
\* types.DeploymentRequest (code, chainID, gasLimit, nameHint)
NoRequest == [contractID |-> 0, deployerID |-> "", chainID |-> 0,
              gasLimit |-> 0, code |-> "", chainHint |-> 0,
              nameHint |-> NoName, callerName |-> NoName, ctorArgs |-> ""]
\* locals of Client.DeployContract, and how often it has called
\* SendTransaction (sends) and WaitMined (waits)
NoLocals == [chainID |-> 0, gasLimit |-> 0, nonce |-> -1, gasPrice |-> 0,
             bytecode |-> << >>, data |-> << >>, tx |-> NoTx,
             accepted |-> FALSE, sendOk |-> FALSE,
             gotReceipt |-> FALSE, name |-> NoName, sends |-> 0, waits |-> 0]
LiveCtx == [db |-> FALSE, deploy |-> FALSE]
NoHist == [steps |-> {}, after |-> {}, recordAtUpdate |-> FALSE,
           storeFailed |-> FALSE]

\* a contract record that FindOne does not find
NoRecord == [exists |-> FALSE, id |-> 0, owner_id |-> "", contract_code |-> "",
             created_at |-> 0, updated_at |-> 0,
             contract_name |-> NoName,
             deployed_address |-> EmptyAddress, deployment_tx |-> EmptyHash]

\* no record request yet: op is "create", "update" or "delete"; set is the
\* $set document of an update; code is the HTTP status of the response
IdleStore == [pc |-> "idle", op |-> "", id |-> 0, user |-> "", set |-> << >>,
              code |-> 0]
\* what a record is created with and is to keep
NoBirth == [id |-> 0, owner_id |-> "", created_at |-> 0]
BirthOf(record) ==
    IF record.exists
    THEN [id |-> record.id, owner_id |-> record.owner_id,
          created_at |-> record.created_at]
    ELSE NoBirth

\* null for the user of the browser
NoUser == ""
\* a browser storage without the items authToken and user
NoSession == [authToken |-> "", user |-> ""]
AuthCalls == 1..NumAuthCalls
\* no login or register in progress: kind is "login" or "register", data the
\* form's values, fresh whether no logout ran since the call began
NoAuthCall == [pc |-> "idle", kind |-> "", data |-> << >>, fresh |-> FALSE]

\* the zero value of TransactionStatus
ZeroStatus == [Status |-> "", BlockNumber |-> 0, Confirmations |-> 0,
               GasUsed |-> 0, Cost |-> ZeroCost]
NoReceipt == [tx |-> NoTx, blockNumber |-> 0, status |-> 0, gasUsed |-> 0,
              contractAddress |-> EmptyAddress]
\* how often a GetTransactionStatus call has issued each of its queries
NoQueries == [receipt |-> 0, header |-> 0, tx |-> 0]
IdlePoller == [pc |-> "idle", hash |-> EmptyHash, receipt |-> NoReceipt,
               header |-> 0, ret |-> "none", err |-> "", st |-> ZeroStatus,
               rpcFailed |-> FALSE, calls |-> 0, queries |-> NoQueries]
\* no VerifyContractSource call yet
NoVerify == [address |-> EmptyAddress, src |-> "", deployed |-> << >>,
             ret |-> "none", err |-> "", result |-> FALSE, queries |-> 0]
\* no EstimateDeploymentCost call yet; keyUse is what the call did with the
\* private key, gas and price count its EstimateGas and SuggestGasPrice
NoEstimate == [pc |-> "idle", src |-> "", bytecode |-> << >>, gasLimit |-> 0,
               ret |-> "none", err |-> "", cost |-> ZeroCost,
               keyUse |-> "none", gas |-> 0, price |-> 0]
\* no CompileContract call yet; file is the temporary file of the call
NoFile == 0
IdleCompile == [pc |-> "idle", src |-> "", file |-> NoFile, ret |-> "none",
                err |-> ""]

(***************************************************************************)
(* The chain node (external), as the client's calls see it                 *)
(***************************************************************************)
RECURSIVE PendingFrom(_, _)
\* first nonce at or after n that no transaction of pool carries
PendingFrom(n, pool) ==
    IF \E t \in pool : t.nonce = n THEN PendingFrom(n + 1, pool) ELSE n

\* eth_getTransactionCount(addr, "latest"): the nonce on chain alone
ConfirmedNonceAt == accountNonce

\* c.client.PendingNonceAt: the nonce after the mempool's transactions
\* (line 267)
PendingNonceAt == PendingFrom(accountNonce, mempool)

\* c.client.SuggestGasPrice
SuggestGasPrice == suggestedGasPrice

\* whether the node takes tx into its mempool: signed for its chain, nonce
\* not used up, and a pending transaction of that nonce only if outbid
NodeAccepts(tx) ==
    /\ tx.chainID = clientChainID
    /\ tx.nonce >= accountNonce
    /\ \A m \in mempool : m.nonce = tx.nonce => tx.gasPrice > m.gasPrice

\* the mempool once tx is accepted: tx takes the place of the one it outbids
MempoolWith(tx) == {m \in mempool : m.nonce # tx.nonce} \cup {tx}

\* c.client.TransactionReceipt: the receipts of hash (none: ethereum.NotFound)
ReceiptsOf(hash) == {b \in chain : TxHash(b.tx) = hash}

\* c.client.TransactionByHash: mined or pending transactions of hash
TransactionsOf(hash) ==
    {b.tx : b \in ReceiptsOf(hash)} \cup {m \in mempool : TxHash(m) = hash}

\* the pending transactions a block may include next, in nonce order
Executable == {m \in mempool : m.nonce < PendingNonceAt}

\* the receipt of tx mined in block number blk
ReceiptFor(tx, blk, status, gasUsed) ==
    [tx |-> tx, blockNumber |-> blk, status |-> status, gasUsed |-> gasUsed,
     contractAddress |-> CreateAddress(tx.nonce)]

\* the node mines a block holding the next n pending transactions (n may be
\* 0); each deployment succeeds (status 1) or reverts (status 0)
MineBlock ==
    \E n \in 0..Cardinality(Executable) :
      \E status \in [accountNonce..(accountNonce + n - 1) -> {0, 1}] :
        \E gasUsed \in GasUsedValues :
          LET included == {m \in mempool : m.nonce < accountNonce + n} IN
          /\ n = 0 => emptyBlocks < MaxEmptyBlocks
          /\ height' = height + 1
          /\ emptyBlocks' = IF n = 0 THEN emptyBlocks + 1 ELSE emptyBlocks
          /\ chain' = chain \cup
                {ReceiptFor(m, height + 1, status[m.nonce], gasUsed) : m \in included}
          /\ mempool' = mempool \ included
          /\ accountNonce' = accountNonce + n
          /\ UNCHANGED <<suggestedGasPrice, envVars, verifyVars, records, reqVars, pl>>

\* the node's chain is reorganised: its head block is dropped, and the
\* transactions that block held are pending again
Reorg ==
    /\ height > 0
    /\ LET dropped == {b \in chain : b.blockNumber = height} IN
       /\ chain' = chain \ dropped
       /\ mempool' = mempool \cup {b.tx : b \in dropped}
       /\ accountNonce' = accountNonce - Cardinality(dropped)
       /\ height' = height - 1
    /\ UNCHANGED <<emptyBlocks, suggestedGasPrice, envVars, verifyVars, records,
                   reqVars, pl>>

\* the node's fee market moves
ChangeGasPrice ==
    \E g \in GasPrices \ {suggestedGasPrice} :
        /\ suggestedGasPrice' = g
        /\ UNCHANGED <<accountNonce, mempool, chain, height, emptyBlocks,
                       envVars, verifyVars, records, reqVars, pl>>

(***************************************************************************)
(* Init                                                                    *)
(***************************************************************************)
Init ==
    /\ clientChainID \in NodeChainIDs
    /\ keySet \in BOOLEAN
    /\ \E src \in Sources :
         records = [id \in RecordIds |->
                      IF id \in ContractIds
                      THEN [NoRecord EXCEPT !.exists = TRUE, !.id = id,
                              !.owner_id = OwnerId, !.contract_code = src]
                      ELSE NoRecord]
    /\ accountNonce = 0
    /\ mempool = {}
    /\ chain = {}
    /\ height = 0
    /\ emptyBlocks = 0
    /\ suggestedGasPrice \in GasPrices
    /\ pc = [r \in Reqs |-> "idle"]
    /\ rq = [r \in Reqs |-> NoRequest]
    /\ loc = [r \in Reqs |-> NoLocals]
    /\ ctx = [r \in Reqs |-> LiveCtx]
    /\ out = [r \in Reqs |-> NoReturn]
    /\ resp = [r \in Reqs |-> NoResponse]
    /\ hist = [r \in Reqs |-> NoHist]
    /\ pl = [p \in Pollers |-> IdlePoller]
    /\ vf = NoVerify
    /\ otherCode = << >>
    /\ est = NoEstimate
    /\ cc = [c \in Compilers |-> IdleCompile]
    /\ tmpFiles = {}
    /\ now = 0
    /\ sreq = [c \in StoreCallers |-> IdleStore]
    /\ born = [id \in RecordIds |-> BirthOf(records[id])]
    /\ currentUser = NoUser
    /\ authLoading = FALSE
    /\ authError = ""
    /\ localStorage = NoSession
    /\ location = "/login"
    /\ authCalls = [c \in AuthCalls |-> NoAuthCall]
    /\ loggedOut = FALSE
    /\ userActions = 0
    /\ dashboard = [mounted |-> FALSE, effectDue |-> FALSE]
    /\ contractsLoading = FALSE
    /\ listsInFlight = 0

\* the state after construction for given contract sources, contractName
\* values of the record's metadata, and codes of the other contract
InitWith(sources, names, codes) ==
    /\ clientChainID \in NodeChainIDs
    /\ keySet \in BOOLEAN
    /\ \E src \in sources, name \in names :
         records = [id \in RecordIds |->
                      IF id \in ContractIds
                      THEN [NoRecord EXCEPT !.exists = TRUE, !.id = id,
                              !.owner_id = OwnerId, !.contract_code = src,
                              !.contract_name = name]
                      ELSE NoRecord]
    /\ accountNonce = 0
    /\ mempool = {}
    /\ chain = {}
    /\ height = 0
    /\ emptyBlocks = 0
    /\ suggestedGasPrice \in GasPrices
    /\ pc = [r \in Reqs |-> "idle"]
    /\ rq = [r \in Reqs |-> NoRequest]
    /\ loc = [r \in Reqs |-> NoLocals]
    /\ ctx = [r \in Reqs |-> LiveCtx]
    /\ out = [r \in Reqs |-> NoReturn]
    /\ resp = [r \in Reqs |-> NoResponse]
    /\ hist = [r \in Reqs |-> NoHist]
    /\ pl = [p \in Pollers |-> IdlePoller]
    /\ vf = NoVerify
    /\ otherCode \in codes
    /\ est = NoEstimate
    /\ cc = [c \in Compilers |-> IdleCompile]
    /\ tmpFiles = {}
    /\ now = 0
    /\ sreq = [c \in StoreCallers |-> IdleStore]
    /\ born = [id \in RecordIds |-> BirthOf(records[id])]
    /\ currentUser = NoUser
    /\ authLoading = FALSE
    /\ authError = ""
    /\ localStorage = NoSession
    /\ location = "/login"
    /\ authCalls = [c \in AuthCalls |-> NoAuthCall]
    /\ loggedOut = FALSE
    /\ userActions = 0
    /\ dashboard = [mounted |-> FALSE, effectDue |-> FALSE]
    /\ contractsLoading = FALSE
    /\ listsInFlight = 0

(***************************************************************************)
(* Service.DeployContract around Client.DeployContract                     *)
(***************************************************************************)
\* the contexts of request r
DeployCtxExpired(r) == ctx[r].deploy
DbCtxExpired(r) == ctx[r].db

Response(code, error, res) ==
    [code |-> code, error |-> error, txHash |-> res.TxHash,
     contractAddress |-> res.ContractAddress]

\* s.contracts.UpdateOne of lines 358-368: the store after the $set
UpdateOne(id, res) ==
    [records EXCEPT ![id].deployed_address = res.ContractAddress,
                    ![id].deployment_tx = res.TxHash,
                    ![id].updated_at = now]

\* whether the UpdateOne of lines 358-368 modifies a record: its context
\* (the one made at line 294) is live, the store answers, the record is there
UpdateSucceeds(r, q, dbOk) ==
    /\ ~DbCtxExpired(r)
    /\ dbOk
    /\ records[q.contractID].exists

\* Client.DeployContract returns ret to the handler, which goes on to lines
\* 338-383 (error response, or write-back and response)
ClientReturns(r, q, ret, dbOk, steps) ==
    /\ out' = [out EXCEPT ![r] = ret]
    /\ pc' = [pc EXCEPT ![r] = "done"]
    /\ IF q.contractID \notin ContractIds
       THEN \* called directly: no handler goes on
            /\ resp' = resp
            /\ records' = records
            /\ hist' = [hist EXCEPT ![r].steps = @ \cup steps]
       ELSE
       IF ret.ret = "err"
       THEN /\ resp' = [resp EXCEPT ![r] =
                          Response(500, "Failed to deploy contract", ZeroResult)]
            /\ records' = records
            /\ hist' = [hist EXCEPT ![r].steps = @ \cup steps]
       ELSE /\ hist' = [hist EXCEPT ![r].steps = @ \cup steps,
                                    ![r].recordAtUpdate = records[q.contractID].exists,
                                    ![r].storeFailed = ~DbCtxExpired(r) /\ ~dbOk]
            /\ IF UpdateSucceeds(r, q, dbOk)
               THEN /\ records' = UpdateOne(q.contractID, ret.res)
                    /\ resp' = [resp EXCEPT ![r] = Response(200, "", ret.res)]
               ELSE /\ records' = records
                    /\ resp' = [resp EXCEPT ![r] =
                          Response(500,
                            "Contract deployed but failed to update database",
                            ret.res)]

ErrReturn(msg) == [ret |-> "err", err |-> msg, res |-> ZeroResult]
OkReturn(res) == [ret |-> "ok", err |-> "", res |-> res]

\* the handler answers before it reaches the client (lines 287-312)
Rejects(r, q, code, error) ==
    /\ rq' = [rq EXCEPT ![r] = q]
    /\ pc' = [pc EXCEPT ![r] = "done"]
    /\ resp' = [resp EXCEPT ![r] = Response(code, error, ZeroResult)]
    /\ UNCHANGED <<loc, ctx, out, hist, records>>

\* CompileContract with the compiler's failure dropped
CompileContractErrorDropped(src) ==
    [err |-> FALSE, contracts |-> SolcOutput(src).contracts]

\* Client.CompileContract, lines 362-385: the source goes to solc through a
\* temporary file; (nil, error) when solc fails
CompileContract(src) ==
    LET so == SolcOutput(src) IN
    IF so.err THEN [err |-> TRUE, contracts |-> << >>] ELSE so

\* strings.Contains(s, sub): sub occurs in s, character for character
Contains(s, sub) ==
    \E i \in 0..(Len(s) - Len(sub)) : SubSeq(s, i + 1, i + Len(sub)) = sub

\* the artifacts Client.DeployContract may pick (lines 199-228): with a
\* contractName in req.Metadata the first of a map iteration whose name
\* contains it; with none, or when no name contains it, the first of a map
\* iteration.  Go iterates a map in no fixed order: any of them
SelectContract(contracts, contractName) ==
    LET named == {n \in DOMAIN contracts : Contains(n, contractName)} IN
    IF contractName # NoName /\ named # {} THEN named ELSE DOMAIN contracts

\* the client's chain whatever the request says
ResolveChainIDIgnoresRequest(reqChainID) == clientChainID

\* lines 252-256: the request's chain ID, or c.chainID when that is 0
ResolveChainID(reqChainID) ==
    IF reqChainID = 0 THEN clientChainID ELSE reqChainID

\* Client.DeployContract, lines 188-264: compile, pick the artifact, read the
\* key, resolve the chain ID; then it is about to ask for the nonce
ClientBegins(r, q, dbOk) ==
    LET so == CompileContract(q.code)
        after == {x \in Reqs : out[x].ret # "none"}
    IN
    /\ rq' = [rq EXCEPT ![r] = q]
    /\ ctx' = ctx
    /\ IF so.err
       THEN /\ ClientReturns(r, q, ErrReturn("compilation failed"), dbOk, {"compile"})
            /\ loc' = loc
       ELSE IF DOMAIN so.contracts = {}
       THEN /\ ClientReturns(r, q, ErrReturn("no contracts found in source code"),
                             dbOk, {"compile"})
            /\ loc' = loc
       ELSE \E name \in SelectContract(so.contracts, q.nameHint) :
            LET bytecode == so.contracts[name] IN
            IF Len(bytecode) = 0
            THEN /\ ClientReturns(r, q, ErrReturn("empty bytecode"), dbOk, {"compile"})
                 /\ loc' = loc
            ELSE IF ~keySet
            THEN /\ ClientReturns(r, q, ErrReturn("failed to get private key"),
                                  dbOk, {"compile", "key"})
                 /\ loc' = loc
            ELSE /\ loc' = [loc EXCEPT ![r] =
                        [NoLocals EXCEPT
                           !.chainID = ResolveChainID(q.chainID),
                           !.gasLimit = q.gasLimit,
                           !.bytecode = bytecode,
                           !.name = name]]
                 /\ pc' = [pc EXCEPT ![r] = "nonce"]
                 /\ hist' = [hist EXCEPT ![r].steps = {"compile", "key"},
                                         ![r].after = after]
                 /\ UNCHANGED <<out, resp, records>>

\* an ownership check that lets every user through
OwnerMatchesAnyone(contract, user) == TRUE

\* service.go lines 308-312: contract.OwnerID != req.DeployerID is refused
OwnerMatches(contract, user) == contract.owner_id = user

\* Service.DeployContract, lines 286-336: bind, FindOne, ownership, defaults,
\* then the client call begins.  Requests are numbered in order of arrival
HandleDeploy(r) ==
    /\ pc[r] = "idle"
    /\ \A x \in Reqs : x < r => pc[x] # "idle"
    /\ \E id \in ContractIds, user \in UserIds, hint \in ChainHints,
          gas \in GasLimitInputs, bindOk \in BOOLEAN, dbOk \in BOOLEAN :
         LET q0 == [NoRequest EXCEPT
                      !.contractID = id, !.deployerID = user,
                      !.chainID = hint, !.gasLimit = gas, !.chainHint = hint]
             contract == records[id]
             \* lines 331-336: ContractCode, ConstructorArguments, ChainID
             \* and GasLimit are handed on; Metadata is not
             q == [q0 EXCEPT
                     !.chainID = IF hint = 0 THEN DefaultChainID ELSE hint,
                     !.gasLimit = IF gas = 0 THEN DefaultGasLimit ELSE gas,
                     !.code = contract.contract_code,
                     !.nameHint = NoName,
                     !.callerName = contract.contract_name]
         IN
         IF ~bindOk THEN Rejects(r, q0, 400, "bad request")
         ELSE IF ~dbOk THEN Rejects(r, q0, 500, "Failed to retrieve contract")
         ELSE IF ~contract.exists THEN Rejects(r, q0, 404, "Contract not found")
         ELSE IF ~OwnerMatches(contract, user)
              THEN Rejects(r, q0, 403, "You don't have permission to deploy this contract")
         ELSE ClientBegins(r, q, TRUE)
    /\ UNCHANGED <<nodeVars, envVars, verifyVars, pl>>

\* Client.DeployContract called directly, with any request
CallDeploy(r) ==
    /\ pc[r] = "idle"
    /\ \A x \in Reqs : x < r => pc[x] # "idle"
    /\ \E src \in AllSources, chainID \in ClientChainIDs, name \in NameHints :
         ClientBegins(r, [NoRequest EXCEPT
                            !.code = src, !.chainID = chainID,
                            !.chainHint = chainID, !.gasLimit = DefaultGasLimit,
                            !.nameHint = name, !.callerName = name], TRUE)
    /\ UNCHANGED <<nodeVars, envVars, verifyVars, pl>>

\* sources of one contract: with a constructor that takes a bool, with
\* none, and an interface, which has no bytecode
ArgSources == {"token", "vault", "iface"}

\* Client.DeployContract called directly for a source of one contract, with
\* any gas limit and any constructor arguments
CallDeployWithArgs(r) ==
    /\ pc[r] = "idle"
    /\ \A x \in Reqs : x < r => pc[x] # "idle"
    /\ \E src \in ArgSources, gasLimit \in ClientGasLimits, args \in CtorArgs :
         ClientBegins(r, [NoRequest EXCEPT
                            !.code = src, !.gasLimit = gasLimit,
                            !.ctorArgs = args], TRUE)
    /\ UNCHANGED <<nodeVars, envVars, verifyVars, pl>>

\* a call fails when its context has expired or the transport fails
RpcAnswers(r, rpcOk) == ~DeployCtxExpired(r) /\ rpcOk

\* lines 266-270: nonce, err := c.client.PendingNonceAt(ctx, fromAddress)
FetchNonce(r) ==
    /\ pc[r] = "nonce"
    /\ \E rpcOk \in BOOLEAN :
         IF RpcAnswers(r, rpcOk)
         THEN /\ loc' = [loc EXCEPT ![r].nonce = PendingNonceAt]
              /\ pc' = [pc EXCEPT ![r] = "gasprice"]
              /\ hist' = [hist EXCEPT ![r].steps = @ \cup {"nonce"}]
              /\ UNCHANGED <<out, resp, records>>
         ELSE /\ ClientReturns(r, rq[r], ErrReturn("failed to get nonce"), TRUE,
                               {"nonce"})
              /\ loc' = loc
    /\ UNCHANGED <<rq, ctx, nodeVars, envVars, verifyVars, pl>>

\* the creation built with the service's default gas limit
NewContractCreationDefaultGas(nonce, gasLimit, gasPrice, data, chainID) ==
    [nonce |-> nonce, gasPrice |-> gasPrice, gasLimit |-> DefaultGasLimit,
     value |-> 0, chainID |-> chainID, data |-> data, to |-> EmptyAddress]

\* lines 312-313: types.NewContractCreation(nonce, 0, gasLimit, gasPrice, data)
NewContractCreation(nonce, gasLimit, gasPrice, data, chainID) ==
    [nonce |-> nonce, gasPrice |-> gasPrice, gasLimit |-> gasLimit, value |-> 0,
     chainID |-> chainID, data |-> data, to |-> EmptyAddress]

\* json.Unmarshal of ConstructorArguments into []interface{} (lines
\* 289-296): a boolean stays a bool, every number becomes a float64.  word
\* is the 32-byte word that stands for the value
ParseArguments(text) ==
    CASE text = ""       -> [err |-> FALSE, args |-> << >>]
      [] text = "[]"     -> [err |-> FALSE, args |-> << >>]
      [] text = "[true]" -> [err |-> FALSE,
                             args |-> <<[kind |-> "bool", word |-> 1]>>]
      [] text = "[7]"    -> [err |-> FALSE,
                             args |-> <<[kind |-> "float64", word |-> 7]>>]
      [] OTHER           -> [err |-> TRUE, args |-> << >>]

\* parsedAbi.Pack("", constructorArgs...) (line 303): as many arguments as
\* the constructor has inputs, each of the Go type its input takes; then one
\* word for each
Pack(inputs, args) ==
    IF Len(args) # Len(inputs)
       \/ \E i \in 1..Len(args) : args[i].kind # inputs[i]
    THEN [err |-> TRUE, data |-> << >>]
    ELSE [err |-> FALSE, data |-> [i \in 1..Len(args) |-> args[i].word]]

\* the payload without the encoded arguments
DeployDataArgsDropped(bytecode, args, encoded) == bytecode

\* lines 302-310: the bytecode, followed by the encoded arguments if any
DeployData(bytecode, args, encoded) ==
    IF Len(args) > 0 THEN bytecode \o encoded ELSE bytecode

\* the gas-price failure logged, and the call goes on with the price 0
FetchGasPriceErrorIgnored(r) ==
    /\ pc[r] = "gasprice"
    /\ \E rpcOk \in BOOLEAN :
         LET price == IF RpcAnswers(r, rpcOk) THEN SuggestGasPrice ELSE 0 IN
         /\ loc' = [loc EXCEPT
                      ![r].gasPrice = price,
                      ![r].data = loc[r].bytecode,
                      ![r].tx = NewContractCreation(loc[r].nonce, loc[r].gasLimit,
                                   price, loc[r].bytecode, loc[r].chainID)]
         /\ pc' = [pc EXCEPT ![r] = "send"]
         /\ hist' = [hist EXCEPT ![r].steps = @ \cup {"gasprice", "sign"}]
         /\ UNCHANGED <<out, resp, records>>
    /\ UNCHANGED <<rq, ctx, nodeVars, envVars, verifyVars, pl>>

\* lines 272-319: gasPrice, err := c.client.SuggestGasPrice(ctx); then the
\* transactor, the constructor arguments, the payload, the transaction and
\* its signature
FetchGasPrice(r) ==
    /\ pc[r] = "gasprice"
    /\ \E rpcOk \in BOOLEAN, signOk \in BOOLEAN :
         IF RpcAnswers(r, rpcOk)
         THEN LET parsed == ParseArguments(rq[r].ctorArgs)
                  packed == Pack(CtorInputs(loc[r].name), parsed.args)
                  data == DeployData(loc[r].bytecode, parsed.args, packed.data)
                  fetched == [loc EXCEPT ![r].gasPrice = SuggestGasPrice]
              IN
              IF parsed.err
              THEN /\ ClientReturns(r, rq[r],
                        ErrReturn("failed to parse constructor arguments"),
                        TRUE, {"gasprice", "args"})
                   /\ loc' = fetched
              ELSE IF Len(parsed.args) > 0 /\ packed.err
              THEN /\ ClientReturns(r, rq[r],
                        ErrReturn("failed to encode constructor arguments"),
                        TRUE, {"gasprice", "args"})
                   /\ loc' = fetched
              ELSE IF ~signOk
              THEN /\ ClientReturns(r, rq[r],
                        ErrReturn("failed to sign transaction"),
                        TRUE, {"gasprice", "args", "sign"})
                   /\ loc' = [fetched EXCEPT ![r].data = data]
              ELSE /\ loc' = [fetched EXCEPT
                          ![r].data = data,
                          ![r].tx = NewContractCreation(loc[r].nonce,
                                       loc[r].gasLimit, SuggestGasPrice, data,
                                       loc[r].chainID)]
                   /\ pc' = [pc EXCEPT ![r] = "send"]
                   /\ hist' = [hist EXCEPT
                                ![r].steps = @ \cup {"gasprice", "args", "sign"}]
                   /\ UNCHANGED <<out, resp, records>>
         ELSE /\ ClientReturns(r, rq[r], ErrReturn("failed to suggest gas price"),
                               TRUE, {"gasprice"})
              /\ loc' = loc
    /\ UNCHANGED <<rq, ctx, nodeVars, envVars, verifyVars, pl>>

\* the error of SendTransaction logged and the wait begun all the same
SendTransactionErrorIgnored(r) ==
    /\ pc[r] = "send"
    /\ \E reaches \in BOOLEAN :
         LET tx == loc[r].tx
             accepted == RpcAnswers(r, reaches) /\ NodeAccepts(tx)
         IN
         /\ mempool' = IF accepted THEN MempoolWith(tx) ELSE mempool
         /\ loc' = [loc EXCEPT ![r].accepted = accepted, ![r].sendOk = TRUE]
         /\ pc' = [pc EXCEPT ![r] = "wait"]
         /\ hist' = [hist EXCEPT ![r].steps = @ \cup {"send"}]
         /\ UNCHANGED <<out, resp, records>>
    /\ UNCHANGED <<rq, ctx, accountNonce, chain, height, emptyBlocks,
                   suggestedGasPrice, envVars, verifyVars, pl>>

\* a submission that failed is tried once more before the call gives up
SendTransactionRetries(r) ==
    /\ pc[r] = "send"
    /\ \E reaches \in BOOLEAN, answered \in BOOLEAN :
         LET tx == loc[r].tx
             accepted == RpcAnswers(r, reaches) /\ NodeAccepts(tx)
         IN
         /\ mempool' = IF accepted THEN MempoolWith(tx) ELSE mempool
         /\ IF accepted /\ answered
            THEN /\ loc' = [loc EXCEPT ![r].accepted = TRUE, ![r].sendOk = TRUE,
                                       ![r].sends = @ + 1]
                 /\ pc' = [pc EXCEPT ![r] = "wait"]
                 /\ hist' = [hist EXCEPT ![r].steps = @ \cup {"send"}]
                 /\ UNCHANGED <<out, resp, records>>
            ELSE IF loc[r].sends < 1
            THEN /\ loc' = [loc EXCEPT ![r].accepted = accepted,
                                       ![r].sends = @ + 1]
                 /\ hist' = [hist EXCEPT ![r].steps = @ \cup {"send"}]
                 /\ UNCHANGED <<pc, out, resp, records>>
            ELSE /\ ClientReturns(r, rq[r], ErrReturn("failed to send transaction"),
                                  TRUE, {"send"})
                 /\ loc' = [loc EXCEPT ![r].accepted = accepted,
                                       ![r].sends = @ + 1]
    /\ UNCHANGED <<rq, ctx, accountNonce, chain, height, emptyBlocks,
                   suggestedGasPrice, envVars, verifyVars, pl>>

\* lines 321-325: err = c.client.SendTransaction(ctx, signedTx).  The call
\* does not reach the node, or the node rejects, or the node accepts; an
\* accepted submission's answer may still be lost on the way back
SendTransaction(r) ==
    /\ pc[r] = "send"
    /\ \E reaches \in BOOLEAN, answered \in BOOLEAN :
         LET tx == loc[r].tx
             accepted == RpcAnswers(r, reaches) /\ NodeAccepts(tx)
         IN
         /\ mempool' = IF accepted THEN MempoolWith(tx) ELSE mempool
         /\ IF accepted /\ answered
            THEN /\ loc' = [loc EXCEPT ![r].accepted = TRUE, ![r].sendOk = TRUE,
                                       ![r].sends = @ + 1]
                 /\ pc' = [pc EXCEPT ![r] = "wait"]
                 /\ hist' = [hist EXCEPT ![r].steps = @ \cup {"send"}]
                 /\ UNCHANGED <<out, resp, records>>
            ELSE /\ ClientReturns(r, rq[r], ErrReturn("failed to send transaction"),
                                  TRUE, {"send"})
                 /\ loc' = [loc EXCEPT ![r].accepted = accepted,
                                       ![r].sends = @ + 1]
    /\ UNCHANGED <<rq, ctx, accountNonce, chain, height, emptyBlocks,
                   suggestedGasPrice, envVars, verifyVars, pl>>

\* the cost taken from the gas limit of the transaction, not the gas used
FullResultCostByGasLimit(tx, gasPrice, receipt) ==
    [TxHash |-> TxHash(tx), ContractAddress |-> receipt.contractAddress,
     BlockNumber |-> receipt.blockNumber, GasUsed |-> receipt.gasUsed,
     GasPrice |-> gasPrice, Cost |-> CostInEth(gasPrice, tx.gasLimit)]

\* the address filled in for a successful receipt alone
FullResultAddressOnSuccess(tx, gasPrice, receipt) ==
    [TxHash |-> TxHash(tx),
     ContractAddress |-> IF receipt.status = 1 THEN receipt.contractAddress
                         ELSE EmptyAddress,
     BlockNumber |-> receipt.blockNumber, GasUsed |-> receipt.gasUsed,
     GasPrice |-> gasPrice, Cost |-> CostInEth(gasPrice, receipt.gasUsed)]

\* lines 338-358: the result built from the receipt
FullResult(tx, gasPrice, receipt) ==
    [TxHash |-> TxHash(tx), ContractAddress |-> receipt.contractAddress,
     BlockNumber |-> receipt.blockNumber, GasUsed |-> receipt.gasUsed,
     GasPrice |-> gasPrice, Cost |-> CostInEth(gasPrice, receipt.gasUsed)]

\* the wait's error handed on to the caller
TimeoutReturnsError(tx) == ErrReturn("timeout waiting for transaction receipt")

\* lines 329-336: what the call returns when WaitMined returns an error
TimeoutReturn(tx) == OkReturn([ZeroResult EXCEPT !.TxHash = TxHash(tx)])

\* lines 327-358 (and the handler's lines 338-383): bind.WaitMined returns
\* the receipt while the context lives, or the context's error once it expired
WaitMined(r) ==
    /\ pc[r] = "wait"
    /\ \E dbOk \in BOOLEAN :
         IF DeployCtxExpired(r)
         THEN /\ ClientReturns(r, rq[r], TimeoutReturn(loc[r].tx), dbOk, {"wait"})
              /\ loc' = [loc EXCEPT ![r].waits = @ + 1]
         ELSE \E receipt \in ReceiptsOf(TxHash(loc[r].tx)) :
              /\ ClientReturns(r, rq[r],
                     OkReturn(FullResult(loc[r].tx, loc[r].gasPrice, receipt)),
                     dbOk, {"wait"})
              /\ loc' = [loc EXCEPT ![r].gotReceipt = TRUE, ![r].waits = @ + 1]
    /\ UNCHANGED <<rq, ctx, nodeVars, envVars, verifyVars, pl>>

\* the 5-second context of line 294 expires
ExpireDbCtx(r) ==
    /\ pc[r] \notin {"idle", "done"}
    /\ ~ctx[r].db
    /\ ctx' = [ctx EXCEPT ![r].db = TRUE]
    /\ UNCHANGED <<pc, rq, loc, out, resp, hist, records, nodeVars, envVars, verifyVars, pl>>

\* a context for the client call that has no deadline
ExpireDeployCtxNever(r) ==
    /\ pc[r] \notin {"idle", "done"}
    /\ FALSE
    /\ UNCHANGED vars

\* the context of the client call expires: the 2-minute context of line
\* 328, made after the 5-second one and so outliving it
ExpireDeployCtx(r) ==
    /\ pc[r] \notin {"idle", "done"}
    /\ ~ctx[r].deploy
    /\ DbTimeoutSec <= DeployTimeoutSec => ctx[r].db
    /\ ctx' = [ctx EXCEPT ![r].deploy = TRUE]
    /\ UNCHANGED <<pc, rq, loc, out, resp, hist, records, nodeVars, envVars, verifyVars, pl>>

\* Service.DeleteContract, lines 243-283: the owner's request removes the
\* record (any other request leaves the store as it is)
DeleteContract ==
    /\ \E id \in ContractIds, user \in UserIds :
         /\ records[id].exists
         /\ records[id].owner_id = user
         /\ records' = [records EXCEPT ![id] = NoRecord]
    /\ UNCHANGED <<reqVars, nodeVars, envVars, verifyVars, pl>>

(***************************************************************************)
(* Service.CreateContract, UpdateContract and DeleteContract, one store    *)
(* operation at a time                                                     *)
(***************************************************************************)
\* the fields of a record by their bson names
BsonKey(field) == IF field = "id" THEN "_id" ELSE field

\* the JSON bodies of update requests: maps from bson names to new values
UpdateBodies ==
    { ("owner_id" :> "bob") @@ ("contract_code" :> "vault"),
      ("_id" :> 2) @@ ("created_at" :> MaxNow + 1) }

\* the ownership check keeps out nobody
IsOwnerAnyone(existingContract, requestUserID) == TRUE

\* lines 207 and 263: the X-User-ID header is the record's owner
IsOwner(existingContract, requestUserID) ==
    existingContract.owner_id = requestUserID

\* the update document keeps a new owner_id
SanitizeKeepsOwner(updates) ==
    ("updated_at" :> now)
        @@ [k \in DOMAIN updates \ {"_id", "created_at"} |-> updates[k]]

\* lines 213-218: the critical fields leave the update document, and
\* updated_at is set in it
Sanitize(updates) ==
    ("updated_at" :> now)
        @@ [k \in DOMAIN updates \ {"_id", "owner_id", "created_at"} |->
              updates[k]]

\* $set: the fields named in the document take its values
ApplySet(record, set) ==
    [f \in DOMAIN record |->
        IF BsonKey(f) \in DOMAIN set THEN set[BsonKey(f)] ELSE record[f]]

\* the uuids not given out yet
FreshIds == {id \in NewContractIds : born[id] = NoBirth}

\* store caller s has no request in progress
StoreFree(s) == sreq[s].pc \in {"idle", "done"}

\* the response of a record request
StoreResponds(s, op, id, user, code) ==
    sreq' = [sreq EXCEPT ![s] = [pc |-> "done", op |-> op, id |-> id,
                                 user |-> user, set |-> << >>, code |-> code]]

StoreFrame == UNCHANGED <<reqVars, nodeVars, envVars, vf, otherCode, est, cc,
                          tmpFiles, now, uiVars, pl>>

\* lines 65-91: a record with a new uuid, the owner of the body, and the
\* time of the clock
CreateContract(s) ==
    /\ StoreFree(s)
    /\ \E owner \in UserIds, src \in {"token"}, bodyOk \in BOOLEAN,
          dbOk \in BOOLEAN :
         IF ~bodyOk
         THEN /\ StoreResponds(s, "create", 0, "", 400)
              /\ UNCHANGED <<records, born>>
         ELSE /\ FreshIds # {}
              /\ LET id == CHOOSE i \in FreshIds : TRUE
                      contract == [NoRecord EXCEPT !.exists = TRUE, !.id = id,
                                     !.owner_id = owner,
                                     !.contract_code = src,
                                     !.created_at = now, !.updated_at = now]
                 IN IF ~dbOk
                    THEN /\ StoreResponds(s, "create", 0, "", 500)
                         /\ UNCHANGED <<records, born>>
                    ELSE /\ records' = [records EXCEPT ![id] = contract]
                         /\ born' = [born EXCEPT ![id] = BirthOf(contract)]
                         /\ StoreResponds(s, "create", id, owner, 201)
    /\ StoreFrame

\* lines 195-210 and 251-266: FindOne by _id, and the ownership check
StoreFind(s, op, id, user, body, bodyOk, dbOk) ==
    /\ StoreFree(s)
    /\ IF ~bodyOk THEN StoreResponds(s, op, 0, "", 400)
       ELSE IF ~dbOk THEN StoreResponds(s, op, 0, "", 500)
       ELSE IF ~records[id].exists THEN StoreResponds(s, op, id, user, 404)
       ELSE IF ~IsOwner(records[id], user)
            THEN StoreResponds(s, op, id, user, 403)
       ELSE sreq' = [sreq EXCEPT ![s] = [pc |-> "write", op |-> op,
                                         id |-> id, user |-> user,
                                         set |-> body, code |-> 0]]
    /\ UNCHANGED <<records, born>>
    /\ StoreFrame

\* lines 181-210
UpdateContractFind(s) ==
    \E id \in RecordIds, user \in UserIds, body \in UpdateBodies,
       bodyOk \in BOOLEAN, dbOk \in BOOLEAN :
        StoreFind(s, "update", id, user, Sanitize(body), bodyOk, dbOk)

\* lines 221-239: UpdateOne by _id
UpdateContractWrite(s) ==
    /\ sreq[s].pc = "write"
    /\ sreq[s].op = "update"
    /\ LET id == sreq[s].id
           user == sreq[s].user
       IN \E dbOk \in BOOLEAN :
            IF ~dbOk
            THEN /\ StoreResponds(s, "update", id, user, 500)
                 /\ UNCHANGED records
            ELSE IF ~records[id].exists
            THEN /\ StoreResponds(s, "update", id, user, 404)
                 /\ UNCHANGED records
            ELSE /\ records' = [records EXCEPT
                                  ![id] = ApplySet(records[id], sreq[s].set)]
                 /\ StoreResponds(s, "update", id, user, 200)
    /\ UNCHANGED born
    /\ StoreFrame

\* lines 243-266
DeleteContractFind(s) ==
    \E id \in RecordIds, user \in UserIds, dbOk \in BOOLEAN :
        StoreFind(s, "delete", id, user, << >>, TRUE, dbOk)

\* lines 269-282: DeleteOne by _id
DeleteContractWrite(s) ==
    /\ sreq[s].pc = "write"
    /\ sreq[s].op = "delete"
    /\ LET id == sreq[s].id
           user == sreq[s].user
       IN \E dbOk \in BOOLEAN :
            IF ~dbOk
            THEN /\ StoreResponds(s, "delete", id, user, 500)
                 /\ UNCHANGED records
            ELSE IF ~records[id].exists
            THEN /\ StoreResponds(s, "delete", id, user, 404)
                 /\ UNCHANGED records
            ELSE /\ records' = [records EXCEPT ![id] = NoRecord]
                 /\ StoreResponds(s, "delete", id, user, 200)
    /\ UNCHANGED born
    /\ StoreFrame

\* time passes
Tick ==
    /\ now < MaxNow
    /\ now' = now + 1
    /\ UNCHANGED <<reqVars, nodeVars, envVars, vf, otherCode, est, cc,
                   tmpFiles, sreq, born, uiVars, records, pl>>

(***************************************************************************)
(* Service.GetDeploymentStatus around Client.GetTransactionStatus          *)
(***************************************************************************)
\* the hashes a caller can ask about: those Client.DeployContract returned
KnownHashes == {out[r].res.TxHash : r \in {x \in Reqs : out[x].ret = "ok"}}

\* the inclusion block counted as a confirmation
ConfirmationsInclusive(headerNumber, receipt) ==
    headerNumber - receipt.blockNumber + 1

\* line 411: header.Number.Uint64() - receipt.BlockNumber.Uint64(), an
\* unsigned subtraction: it wraps around when the header is the lower
ConfirmationsOf(headerNumber, receipt) ==
    (headerNumber - receipt.blockNumber) % WordModulus

\* lines 433-437: "success" for receipt status 1, "failed" otherwise
StatusString(receipt) == IF receipt.status = 1 THEN "success" ELSE "failed"

\* the cost taken at the gas price the node suggests now
MinedStatusAtCurrentPrice(receipt, headerNumber, tx) ==
    [Status |-> StatusString(receipt),
     BlockNumber |-> receipt.blockNumber,
     Confirmations |-> ConfirmationsOf(headerNumber, receipt),
     GasUsed |-> receipt.gasUsed,
     Cost |-> CostInEth(SuggestGasPrice, receipt.gasUsed)]

\* lines 439-445: the TransactionStatus of a mined transaction
MinedStatus(receipt, headerNumber, tx) ==
    [Status |-> StatusString(receipt),
     BlockNumber |-> receipt.blockNumber,
     Confirmations |-> ConfirmationsOf(headerNumber, receipt),
     GasUsed |-> receipt.gasUsed,
     Cost |-> CostInEth(tx.gasPrice, receipt.gasUsed)]

\* lines 394-400: the TransactionStatus when the node has no receipt
PendingStatus == [ZeroStatus EXCEPT !.Status = "pending", !.Confirmations = 0]

\* ethereum.NotFound taken for a failure of the query
NotFoundIsError(call) ==
    [call EXCEPT !.pc = "idle", !.ret = "err",
                 !.err = "failed to get transaction receipt"]

\* lines 393-402 on ethereum.NotFound
NotFoundReturn(call) ==
    [call EXCEPT !.pc = "idle", !.ret = "ok", !.st = PendingStatus]

\* a node query of the call fails: (nil, error)
StatusFails(call, msg) ==
    [call EXCEPT !.pc = "idle", !.ret = "err", !.err = msg, !.rpcFailed = TRUE]

\* lines 387-402: a status request for hash; receipt, err :=
\* c.client.TransactionReceipt(ctx, hash)
StatusReceipt(p, hash, rpcOk) ==
    /\ pl[p].pc = "idle"
    /\ hash \in KnownHashes
    /\ LET call == [IdlePoller EXCEPT !.hash = hash,
                                      !.calls = (pl[p].calls + 1) % 2,
                                      !.queries.receipt = 1] IN
       IF ~rpcOk
       THEN pl' = [pl EXCEPT ![p] =
                     StatusFails(call, "failed to get transaction receipt")]
       ELSE IF ReceiptsOf(hash) = {}
       THEN pl' = [pl EXCEPT ![p] = NotFoundReturn(call)]
       ELSE \E receipt \in ReceiptsOf(hash) :
              pl' = [pl EXCEPT ![p] =
                       [call EXCEPT !.pc = "header", !.receipt = receipt]]
    /\ UNCHANGED <<nodeVars, envVars, verifyVars, records, reqVars>>

\* lines 404-411: header, err := c.client.HeaderByNumber(ctx, nil)
StatusHeader(p, rpcOk) ==
    /\ pl[p].pc = "header"
    /\ LET call == [pl[p] EXCEPT !.queries.header = @ + 1] IN
       pl' = [pl EXCEPT ![p] =
                IF rpcOk THEN [call EXCEPT !.pc = "tx", !.header = height]
                ELSE StatusFails(call, "failed to get current block header")]
    /\ UNCHANGED <<nodeVars, envVars, verifyVars, records, reqVars>>

\* the status request also writes what it found to the contract records
StatusTransactionWritesRecord(p, rpcOk) ==
    /\ pl[p].pc = "tx"
    /\ rpcOk /\ TransactionsOf(pl[p].hash) # {}
    /\ \E tx \in TransactionsOf(pl[p].hash) :
         pl' = [pl EXCEPT ![p] =
                  [pl[p] EXCEPT !.pc = "idle", !.ret = "ok",
                     !.st = [ZeroStatus EXCEPT
                               !.Status = IF pl[p].receipt.status = 1
                                          THEN "success" ELSE "failed",
                               !.BlockNumber = pl[p].receipt.blockNumber,
                               !.Confirmations = pl[p].header
                                                   - pl[p].receipt.blockNumber,
                               !.GasUsed = pl[p].receipt.gasUsed,
                               !.Cost = CostInEth(tx.gasPrice,
                                                  pl[p].receipt.gasUsed)]]]
    /\ records' = [id \in DOMAIN records |->
                     IF records[id].exists
                     THEN [records[id] EXCEPT
                             !.deployed_address = pl[p].receipt.contractAddress,
                             !.deployment_tx = pl[p].hash]
                     ELSE records[id]]
    /\ UNCHANGED <<nodeVars, envVars, verifyVars, reqVars>>

\* lines 413-445: tx, _, err := c.client.TransactionByHash(ctx, hash), then
\* the cost, the status string and the result
StatusTransaction(p, rpcOk) ==
    /\ pl[p].pc = "tx"
    /\ LET call == [pl[p] EXCEPT !.queries.tx = @ + 1] IN
       IF rpcOk /\ TransactionsOf(pl[p].hash) # {}
       THEN \E tx \in TransactionsOf(pl[p].hash) :
              pl' = [pl EXCEPT ![p] =
                       [call EXCEPT !.pc = "idle", !.ret = "ok",
                          !.st = MinedStatus(pl[p].receipt, pl[p].header, tx)]]
       ELSE pl' = [pl EXCEPT ![p] = StatusFails(call, "failed to get transaction")]
    /\ UNCHANGED <<nodeVars, envVars, verifyVars, records, reqVars>>

(***************************************************************************)
(* Client.VerifyContractSource                                             *)
(***************************************************************************)
\* what the node stores at the address of a mined creation: the creation
\* code runs, and its init part returns the runtime code that follows it
RuntimeCode(data) == IF data = << >> THEN << >> ELSE Tail(data)

\* c.client.CodeAt(ctx, address, nil): the code stored at address now, empty
\* where no contract is (nothing mined there, or the creation reverted)
CodeAt(address) ==
    IF address = OtherAddress THEN otherCode
    ELSE LET made == {b \in chain : b.contractAddress = address /\ b.status = 1}
         IN IF made = {} THEN << >>
            ELSE RuntimeCode((CHOOSE b \in made : TRUE).tx.data)

\* bytes.HasPrefix(s, prefix)
HasPrefix(s, prefix) ==
    Len(prefix) <= Len(s) /\ SubSeq(s, 1, Len(prefix)) = prefix

\* a match only for an artifact equal to the whole deployed code
VerifyMatchesEqual(deployedBytecode, contracts) ==
    /\ Len(deployedBytecode) > 0
    /\ \E n \in DOMAIN contracts : deployedBytecode = contracts[n]

\* lines 534-548: true at the first artifact that the deployed code, when
\* not empty, starts with
VerifyMatches(deployedBytecode, contracts) ==
    /\ Len(deployedBytecode) > 0
    /\ \E n \in DOMAIN contracts : HasPrefix(deployedBytecode, contracts[n])

\* the addresses a caller asks about: the other contract's, and the ones
\* DeployContract returned
VerifyAddresses ==
    {OtherAddress} \cup
    {out[r].res.ContractAddress :
        r \in {x \in Reqs : out[x].ret = "ok" /\ loc[x].gotReceipt}}

\* lines 511-549: compile, fetch the code at the address, compare
VerifyContractSource(address, src, rpcOk) ==
    /\ LET so == CompileContract(src)
           call == [NoVerify EXCEPT !.address = address, !.src = src]
       IN
       IF so.err
       THEN vf' = [call EXCEPT !.ret = "err", !.err = "compilation failed"]
       ELSE IF ~rpcOk
       THEN vf' = [call EXCEPT !.ret = "err", !.queries = 1,
                               !.err = "failed to get deployed bytecode"]
       ELSE vf' = [call EXCEPT
                     !.ret = "ok", !.queries = 1,
                     !.deployed = CodeAt(address),
                     !.result = VerifyMatches(CodeAt(address), so.contracts)]
    /\ UNCHANGED <<nodeVars, envVars, otherCode, est, cc, tmpFiles, storeVars, uiVars,
                   records,
                   reqVars, pl>>

(***************************************************************************)
(* Client.EstimateDeploymentCost                                           *)
(***************************************************************************)
\* c.client.EstimateGas for a creation with the given data: what the node
\* finds the creation would use
EstimateGasAnswers == GasUsedValues

\* the call returns an error
EstimateFails(call, msg) == [call EXCEPT !.pc = "idle", !.ret = "err", !.err = msg]

\* lines 449-478: compile, take the first contract of a map iteration, read
\* the key and derive the sender's address from it
EstimateBegins(src) ==
    /\ est.pc = "idle"
    /\ LET so == CompileContract(src)
           call == [NoEstimate EXCEPT !.src = src]
       IN
       IF so.err THEN est' = EstimateFails(call, "compilation failed")
       ELSE IF DOMAIN so.contracts = {}
       THEN est' = EstimateFails(call, "no contracts found in source code")
       ELSE \E n \in DOMAIN so.contracts :
            IF ~keySet
            THEN est' = EstimateFails(call, "failed to get private key")
            ELSE est' = [call EXCEPT !.pc = "gas",
                                     !.bytecode = so.contracts[n],
                                     !.keyUse = "address"]
    /\ UNCHANGED <<nodeVars, envVars, vf, otherCode, cc, tmpFiles, storeVars, uiVars,
                   records,
                   reqVars, pl>>

\* the gas found by sending the creation and reading what it used
EstimateGasBySubmitting(rpcOk) ==
    /\ est.pc = "gas"
    /\ est' = [est EXCEPT !.pc = "price", !.gas = @ + 1, !.keyUse = "sign",
                          !.gasLimit = CHOOSE g \in EstimateGasAnswers : TRUE]
    /\ mempool' = mempool \cup
          {[nonce |-> PendingNonceAt, gasPrice |-> SuggestGasPrice,
            gasLimit |-> DefaultGasLimit, value |-> 0, chainID |-> clientChainID,
            data |-> est.bytecode, to |-> EmptyAddress]}
    /\ UNCHANGED <<accountNonce, chain, height, emptyBlocks, suggestedGasPrice,
                   envVars, vf, otherCode, cc, tmpFiles, storeVars, uiVars,
                   records, reqVars, pl>>

\* lines 480-487: gasLimit, err := c.client.EstimateGas(ctx, CallMsg{...})
EstimateGas(rpcOk) ==
    /\ est.pc = "gas"
    /\ LET call == [est EXCEPT !.gas = @ + 1] IN
       IF ~rpcOk THEN est' = EstimateFails(call, "failed to estimate gas")
       ELSE \E g \in EstimateGasAnswers :
              est' = [call EXCEPT !.pc = "price", !.gasLimit = g]
    /\ UNCHANGED <<nodeVars, envVars, vf, otherCode, cc, tmpFiles, storeVars, uiVars,
                   records,
                   reqVars, pl>>

\* lines 489-507: gasPrice, err := c.client.SuggestGasPrice(ctx), and the
\* cost gasPrice * gasLimit / 1e18
EstimatePrice(rpcOk) ==
    /\ est.pc = "price"
    /\ LET call == [est EXCEPT !.price = @ + 1] IN
       IF ~rpcOk THEN est' = EstimateFails(call, "failed to get gas price")
       ELSE est' = [call EXCEPT !.pc = "idle", !.ret = "ok",
                                !.cost = CostInEth(SuggestGasPrice, est.gasLimit)]
    /\ UNCHANGED <<nodeVars, envVars, vf, otherCode, cc, tmpFiles, storeVars, uiVars,
                   records,
                   reqVars, pl>>

(***************************************************************************)
(* Client.CompileContract, step by step, with its temporary file           *)
(***************************************************************************)
\* os.CreateTemp("", "solidity-*.sol") gives each call a name that no
\* existing file has: here the number of the caller
TempName(c) == c

\* the call returns and leaves its file where it is unless it succeeded
CompileReturnsRemovesOnSuccess(c, ret, err) ==
    /\ cc' = [cc EXCEPT ![c] = [@ EXCEPT !.pc = "idle", !.ret = ret, !.err = err]]
    /\ tmpFiles' = IF ret = "ok" THEN tmpFiles \ {cc[c].file} ELSE tmpFiles

\* a return once the file was created: the deferred os.Remove of line 368
\* runs (an unlink, which takes the name away whether or not the file is
\* still open)
CompileReturns(c, ret, err) ==
    /\ cc' = [cc EXCEPT ![c] = [@ EXCEPT !.pc = "idle", !.ret = ret, !.err = err]]
    /\ tmpFiles' = tmpFiles \ {cc[c].file}

\* lines 364-368: tmpFile, err := os.CreateTemp(...)
CompileCreate(c, src, ok) ==
    /\ cc[c].pc = "idle"
    /\ IF ok
       THEN /\ cc' = [cc EXCEPT ![c] =
                       [IdleCompile EXCEPT !.pc = "write", !.src = src,
                                           !.file = TempName(c)]]
            /\ tmpFiles' = tmpFiles \cup {TempName(c)}
       ELSE /\ cc' = [cc EXCEPT ![c] =
                       [IdleCompile EXCEPT !.src = src, !.ret = "err",
                          !.err = "failed to create temporary file"]]
            /\ tmpFiles' = tmpFiles
    /\ UNCHANGED <<nodeVars, envVars, vf, otherCode, est, storeVars, uiVars,
                   records, reqVars, pl>>

\* lines 370-372: tmpFile.WriteString(sourceCode)
CompileWrite(c, ok) ==
    /\ cc[c].pc = "write"
    /\ IF ok
       THEN /\ cc' = [cc EXCEPT ![c].pc = "close"]
            /\ tmpFiles' = tmpFiles
       ELSE CompileReturns(c, "err", "failed to write to temporary file")
    /\ UNCHANGED <<nodeVars, envVars, vf, otherCode, est, storeVars, uiVars,
                   records, reqVars, pl>>

\* lines 374-376: tmpFile.Close()
CompileClose(c, ok) ==
    /\ cc[c].pc = "close"
    /\ IF ok
       THEN /\ cc' = [cc EXCEPT ![c].pc = "solc"]
            /\ tmpFiles' = tmpFiles
       ELSE CompileReturns(c, "err", "failed to close temporary file")
    /\ UNCHANGED <<nodeVars, envVars, vf, otherCode, est, storeVars, uiVars,
                   records, reqVars, pl>>

\* lines 378-384: solc.CompileSolidity("solc", tmpFile.Name()) and the return
CompileSolc(c) ==
    /\ cc[c].pc = "solc"
    /\ IF CompileContract(cc[c].src).err
       THEN CompileReturns(c, "err", "compilation failed")
       ELSE CompileReturns(c, "ok", "")
    /\ UNCHANGED <<nodeVars, envVars, vf, otherCode, est, storeVars, uiVars,
                   records, reqVars, pl>>

(***************************************************************************)
(* Specifications                                                          *)
(***************************************************************************)
\* the deployment path: handlers, the node and the clock, in any interleaving
Next ==
    \/ \E r \in Reqs : HandleDeploy(r)
    \/ \E r \in Reqs : FetchNonce(r)
    \/ \E r \in Reqs : FetchGasPrice(r)
    \/ \E r \in Reqs : SendTransaction(r)
    \/ \E r \in Reqs : WaitMined(r)
    \/ \E r \in Reqs : ExpireDbCtx(r)
    \/ \E r \in Reqs : ExpireDeployCtx(r)
    \/ DeleteContract
    \/ MineBlock
    \/ ChangeGasPrice

Spec == Init /\ [][Next]_vars

\* the first deployment request alone, with status callers asking about
\* its hash at any time
StatusNext ==
    \/ HandleDeploy(1)
    \/ FetchNonce(1)
    \/ FetchGasPrice(1)
    \/ SendTransaction(1)
    \/ WaitMined(1)
    \/ ExpireDbCtx(1)
    \/ ExpireDeployCtx(1)
    \/ DeleteContract
    \/ MineBlock
    \/ ChangeGasPrice
    \/ \E p \in Pollers, rpcOk \in BOOLEAN :
          StatusReceipt(p, out[1].res.TxHash, rpcOk)
    \/ \E p \in Pollers, rpcOk \in BOOLEAN : StatusHeader(p, rpcOk)
    \/ \E p \in Pollers, rpcOk \in BOOLEAN : StatusTransaction(p, rpcOk)

StatusSpec == Init /\ [][StatusNext]_vars

\* the first deployment request and a status caller, on a chain that may
\* be reorganised
ReorgNext ==
    \/ HandleDeploy(1)
    \/ FetchNonce(1)
    \/ FetchGasPrice(1)
    \/ SendTransaction(1)
    \/ WaitMined(1)
    \/ ExpireDbCtx(1)
    \/ ExpireDeployCtx(1)
    \/ MineBlock
    \/ Reorg
    \/ ChangeGasPrice
    \/ \E rpcOk \in BOOLEAN : StatusReceipt(1, out[1].res.TxHash, rpcOk)
    \/ \E rpcOk \in BOOLEAN : StatusHeader(1, rpcOk)
    \/ \E rpcOk \in BOOLEAN : StatusTransaction(1, rpcOk)

ReorgSpec == Init /\ [][ReorgNext]_vars

\* status caller p asks about the hash that the deployment r returned, and
\* the node answers
PollOk(p, r) == StatusReceipt(p, out[r].res.TxHash, TRUE)

\* deployments, the node, the clock of the first request, and a status
\* caller that the node answers
FairNext ==
    \/ \E r \in Reqs : HandleDeploy(r)
    \/ \E r \in Reqs : FetchNonce(r)
    \/ \E r \in Reqs : FetchGasPrice(r)
    \/ \E r \in Reqs : SendTransaction(r)
    \/ \E r \in Reqs : WaitMined(r)
    \/ ExpireDbCtx(1)
    \/ ExpireDeployCtx(1)
    \/ MineBlock
    \/ ChangeGasPrice
    \/ \E r \in Reqs : PollOk(1, r)
    \/ StatusHeader(1, TRUE)
    \/ StatusTransaction(1, TRUE)

\* the chain keeps producing blocks, every returned hash is asked about again
\* and again, and a status request that has begun goes on
FairSpec ==
    /\ Init /\ [][FairNext]_vars
    /\ WF_vars(MineBlock)
    /\ \A r \in Reqs : SF_vars(PollOk(1, r))
    /\ WF_vars(StatusHeader(1, TRUE))
    /\ WF_vars(StatusTransaction(1, TRUE))

\* one deployment, asked of the handler or of the client directly, for any
\* source and any contractName
ClientInit == InitWith(AllSources, NameHints, {<< >>})

ClientNext ==
    \/ HandleDeploy(1)
    \/ CallDeploy(1)
    \/ FetchNonce(1)
    \/ FetchGasPrice(1)
    \/ SendTransaction(1)
    \/ WaitMined(1)
    \/ ExpireDbCtx(1)
    \/ ExpireDeployCtx(1)
    \/ MineBlock
    \/ ChangeGasPrice

ClientSpec == ClientInit /\ [][ClientNext]_vars

\* one deployment of a source that has code, any code at the other
\* contract's address, and callers that verify sources against addresses
VerifyInit == InitWith(DeployableSources, {NoName}, OtherCodes)

VerifyNext ==
    \/ HandleDeploy(1)
    \/ FetchNonce(1)
    \/ FetchGasPrice(1)
    \/ SendTransaction(1)
    \/ WaitMined(1)
    \/ ExpireDbCtx(1)
    \/ ExpireDeployCtx(1)
    \/ MineBlock
    \/ ChangeGasPrice
    \/ \E address \in VerifyAddresses, src \in AllSources, rpcOk \in BOOLEAN :
          VerifyContractSource(address, src, rpcOk)

VerifySpec == VerifyInit /\ [][VerifyNext]_vars

\* the steps of the deployment request r, and its clock
DeploySteps(r) ==
    \/ FetchNonce(r)
    \/ FetchGasPrice(r)
    \/ SendTransaction(r)
    \/ WaitMined(r)
    \/ ExpireDbCtx(r)
    \/ ExpireDeployCtx(r)

(***************************************************************************)
(* The browser: AuthProvider, ProtectedRoute, ContractsProvider, Dashboard *)
(***************************************************************************)
\* the values of the login and register forms
Credentials ==
    { [email |-> "a@x.io", password |-> "pw"],
      [email |-> "a@x.io", password |-> ""] }

DemoToken == "demo-token-123456789"
\* the user of the response, by its email
UserOf(data) == data.email
\* JSON.stringify
Stringify(user) == <<"json", user>>
\* simulateApiCall of the AuthProvider: any email with any password
Accepts(data) == data.email # "" /\ data.password # ""

\* the Dashboard goes: its state and its due effect go with it
Unmounted == [mounted |-> FALSE, effectDue |-> FALSE]
\* the ContractsProvider rendered again: listContracts is a new function, so
\* the effect of a mounted Dashboard is due
Rerendered == [dashboard EXCEPT !.effectDue = dashboard.mounted]

AuthFrame == UNCHANGED <<reqVars, nodeVars, envVars, vf, otherCode, est, cc,
                         tmpFiles, storeVars, records, pl>>

\* login and register up to their await: loading is set, the error cleared,
\* and the ProtectedRoute shows its spinner in place of its children
AuthBegins(c, kind, data) ==
    /\ authCalls[c].pc = "idle"
    /\ userActions < MaxUserActions
    /\ userActions' = userActions + 1
    /\ authLoading' = TRUE
    /\ authError' = ""
    /\ authCalls' = [authCalls EXCEPT ![c] = [pc |-> "pending", kind |-> kind,
                                              data |-> data, fresh |-> TRUE]]
    /\ dashboard' = Unmounted
    /\ UNCHANGED <<currentUser, localStorage, location, loggedOut,
                   contractsLoading, listsInFlight>>
    /\ AuthFrame

login(c) == \E data \in Credentials : AuthBegins(c, "login", data)

register(c) == \E data \in Credentials : AuthBegins(c, "register", data)

\* login and register after their await: the timer of simulateApiCall fired
AuthResponse(c) ==
    /\ authCalls[c].pc = "pending"
    /\ LET call == authCalls[c]
           user == UserOf(call.data)
       IN IF Accepts(call.data)
          THEN /\ currentUser' = user
               /\ localStorage' = [authToken |-> DemoToken,
                                   user |-> Stringify(user)]
               /\ location' = "/dashboard"
               /\ loggedOut' = IF call.fresh THEN FALSE ELSE loggedOut
               /\ UNCHANGED authError
          ELSE /\ authError' = "Invalid credentials"
               /\ UNCHANGED <<currentUser, localStorage, location,
                              loggedOut>>
    /\ authLoading' = FALSE
    /\ authCalls' = [authCalls EXCEPT ![c] = NoAuthCall]
    /\ dashboard' = Rerendered
    /\ UNCHANGED <<userActions, contractsLoading, listsInFlight>>
    /\ AuthFrame

\* logout: the calls in progress are left as they are
logout ==
    /\ userActions < MaxUserActions
    /\ userActions' = userActions + 1
    /\ currentUser' = NoUser
    /\ localStorage' = NoSession
    /\ location' = "/login"
    /\ loggedOut' = TRUE
    /\ authCalls' = [c \in AuthCalls |-> [authCalls[c] EXCEPT !.fresh = FALSE]]
    /\ dashboard' = Unmounted
    /\ UNCHANGED <<authLoading, authError, contractsLoading, listsInFlight>>
    /\ AuthFrame

\* the ProtectedRoute renders its children
RendersChildren == ~authLoading /\ currentUser # NoUser

\* the Dashboard mounts at its route; its effect is due
DashboardMounts ==
    /\ ~dashboard.mounted
    /\ location = "/dashboard"
    /\ RendersChildren
    /\ dashboard' = [mounted |-> TRUE, effectDue |-> TRUE]
    /\ UNCHANGED <<currentUser, authLoading, authError, localStorage, location,
                   authCalls, loggedOut, userActions, contractsLoading,
                   listsInFlight>>
    /\ AuthFrame

\* the effect of the Dashboard calls listContracts up to its await:
\* setLoading(true) renders the provider again when loading was false
fetchContracts ==
    /\ dashboard.mounted
    /\ dashboard.effectDue
    /\ listsInFlight < MaxInFlight
    /\ IF currentUser = NoUser
       THEN /\ dashboard' = [dashboard EXCEPT !.effectDue = FALSE]
            /\ UNCHANGED <<contractsLoading, listsInFlight>>
       ELSE /\ contractsLoading' = TRUE
            /\ listsInFlight' = listsInFlight + 1
            /\ dashboard' = [dashboard EXCEPT !.effectDue = ~contractsLoading]
    /\ UNCHANGED <<currentUser, authLoading, authError, localStorage, location,
                   authCalls, loggedOut, userActions>>
    /\ AuthFrame

\* listContracts after its await: setUserContracts with the new array
\* renders the provider again, and loading is cleared
listContractsResponse ==
    /\ listsInFlight > 0
    /\ listsInFlight' = listsInFlight - 1
    /\ contractsLoading' = FALSE
    /\ dashboard' = Rerendered
    /\ UNCHANGED <<currentUser, authLoading, authError, localStorage, location,
                   authCalls, loggedOut, userActions>>
    /\ AuthFrame

\* the record handlers of every store caller, in any interleaving
StoreNext ==
    \/ \E s \in StoreCallers : CreateContract(s)
    \/ \E s \in StoreCallers : UpdateContractFind(s)
    \/ \E s \in StoreCallers : UpdateContractWrite(s)
    \/ \E s \in StoreCallers : DeleteContractFind(s)
    \/ \E s \in StoreCallers : DeleteContractWrite(s)

\* the key is set, the node is on the default chain, and the record holds
\* the source that compiles to one contract
StoreInit ==
    /\ Init
    /\ keySet
    /\ clientChainID = DefaultChainID
    /\ suggestedGasPrice = 1
    /\ records[1].contract_code = "token"

StoreSpec == StoreInit /\ [][StoreNext]_vars

\* the record handlers of one store caller, one deployment, the node and the
\* clock
RecordNext ==
    \/ CreateContract(1)
    \/ UpdateContractFind(1)
    \/ UpdateContractWrite(1)
    \/ DeleteContractFind(1)
    \/ DeleteContractWrite(1)
    \/ Tick
    \/ HandleDeploy(1)
    \/ FetchNonce(1)
    \/ FetchGasPrice(1)
    \/ SendTransaction(1)
    \/ WaitMined(1)
    \/ MineBlock

RecordSpec == StoreInit /\ [][RecordNext]_vars

\* the browser: what the user does, and the timers and effects that run
BrowserNext ==
    \/ \E c \in AuthCalls : login(c)
    \/ \E c \in AuthCalls : register(c)
    \/ \E c \in AuthCalls : AuthResponse(c)
    \/ logout
    \/ DashboardMounts
    \/ fetchContracts
    \/ listContractsResponse

\* every timer fires, and a due effect runs
BrowserSpec ==
    /\ StoreInit
    /\ [][BrowserNext]_vars
    /\ \A c \in AuthCalls : WF_vars(AuthResponse(c))
    /\ WF_vars(fetchContracts)
    /\ WF_vars(listContractsResponse)

\* one deployment, and beside it a status caller, a cost estimate and
\* source verifications, in any interleaving
ReadNext ==
    \/ HandleDeploy(1)
    \/ DeploySteps(1)
    \/ MineBlock
    \/ ChangeGasPrice
    \/ \E rpcOk \in BOOLEAN : StatusReceipt(1, out[1].res.TxHash, rpcOk)
    \/ \E rpcOk \in BOOLEAN : StatusHeader(1, rpcOk)
    \/ \E rpcOk \in BOOLEAN : StatusTransaction(1, rpcOk)
    \/ \E src \in Sources : EstimateBegins(src)
    \/ \E rpcOk \in BOOLEAN : EstimateGas(rpcOk)
    \/ \E rpcOk \in BOOLEAN : EstimatePrice(rpcOk)
    \/ \E address \in VerifyAddresses, src \in Sources, rpcOk \in BOOLEAN :
          VerifyContractSource(address, src, rpcOk)

ReadSpec == Init /\ [][ReadNext]_vars

\* a direct call of Client.DeployContract with any gas limit and any
\* constructor arguments, a request to the handler beside it, the node,
\* and the clock of the direct call
BuildNext ==
    \/ CallDeployWithArgs(1)
    \/ HandleDeploy(2)
    \/ DeploySteps(1)
    \/ FetchNonce(2)
    \/ FetchGasPrice(2)
    \/ SendTransaction(2)
    \/ WaitMined(2)
    \/ MineBlock
    \/ ChangeGasPrice

BuildSpec == Init /\ [][BuildNext]_vars

\* callers of CompileContract, each going through its steps
CompileNext ==
    \/ \E c \in Compilers, src \in AllSources, ok \in BOOLEAN :
          CompileCreate(c, src, ok)
    \/ \E c \in Compilers, ok \in BOOLEAN : CompileWrite(c, ok)
    \/ \E c \in Compilers, ok \in BOOLEAN : CompileClose(c, ok)
    \/ \E c \in Compilers : CompileSolc(c)

CompileSpec == Init /\ [][CompileNext]_vars

\* the deployment path where a handler that has begun goes on and the
\* clock runs: every step of a request is taken in the end and both of its
\* contexts expire in the end.  Nothing makes the node mine
LiveSpec ==
    /\ Init /\ [][Next]_vars
    /\ \A r \in Reqs :
          /\ WF_vars(FetchNonce(r))
          /\ WF_vars(FetchGasPrice(r))
          /\ WF_vars(SendTransaction(r))
          /\ WF_vars(WaitMined(r))
          /\ WF_vars(ExpireDbCtx(r))
          /\ WF_vars(ExpireDeployCtx(r))

(***************************************************************************)
(* Properties                                                              *)
(***************************************************************************)
\* request r signed a transaction
Signed(r) == loc[r].tx # NoTx
\* neither call had returned when the other began
Concurrent(a, b) == a # b /\ a \notin hist[b].after /\ b \notin hist[a].after
\* call a had returned before call b began
Before(a, b) == a \in hist[b].after
\* Client.DeployContract of r has returned
Returned(r) == out[r].ret # "none"
\* the wait of r ended without a receipt
TimedOut(r) == Returned(r) /\ loc[r].sendOk /\ ~loc[r].gotReceipt

\* C1: concurrent DeployContract calls that use the same signing key never
\* sign two transactions carrying the same nonce (the first half of the
\* claim; the second, that all are mined, needs this one)
C1_ConcurrentNoncesDistinct ==
    \A a, b \in Reqs :
        (Concurrent(a, b) /\ Signed(a) /\ Signed(b))
            => loc[a].tx.nonce # loc[b].tx.nonce

C3_TimeoutReportedPending ==
    \A r \in Reqs :
        (pc[r] = "done" /\ TimedOut(r)) =>
            /\ resp[r].code = 200
            /\ resp[r].txHash = TxHash(loc[r].tx)

\* C5: when the client returned a result and the contract record was still
\* there (and the store did not fail), the handler has written the result
\* to the record and responded 200
C5_ResultWrittenBack ==
    \A r \in Reqs :
        (pc[r] = "done" /\ out[r].ret = "ok" /\ hist[r].recordAtUpdate
                        /\ ~hist[r].storeFailed) =>
            /\ resp[r].code = 200
            /\ resp[r].txHash = out[r].res.TxHash

\* the steps of the Transaction Builder and the Broadcaster
BuilderSteps == {"key", "nonce", "gasprice", "sign", "send", "wait"}

\* C6: when the compiler fails on the source, DeployContract returns the
\* compile error and has done nothing of the Transaction Builder or the
\* Broadcaster: key not read, no nonce or gas price fetched, nothing
\* signed, nothing submitted
C6_CompileErrorStopsEarly ==
    \A r \in Reqs :
        (rq[r].code \in Sources /\ SolcOutput(rq[r].code).err) =>
            /\ pc[r] = "done"
            /\ out[r] = ErrReturn("compilation failed")
            /\ hist[r].steps \cap BuilderSteps = {}
            /\ loc[r] = NoLocals

\* a deployment of a source that does not compile has returned
C6_Witness ==
    \E r \in Reqs : rq[r].code = "bad" /\ out[r].ret = "err" /\ resp[r].code = 500

\* C7: when a call began after an earlier call had returned, and the node
\* had accepted the earlier call's transaction, the later call's
\* transaction carries another nonce, also while the earlier one is pending
C7_ConsecutiveNoncesDiffer ==
    \A a, b \in Reqs :
        (Before(a, b) /\ loc[a].accepted /\ Signed(b))
            => loc[b].tx.nonce # loc[a].tx.nonce

\* the later call has signed while the earlier transaction is in the mempool
C7_Witness ==
    \E a, b \in Reqs :
        /\ Before(a, b) /\ loc[a].accepted /\ Signed(b)
        /\ loc[a].tx \in mempool

\* a status call on the hash of r has returned "success" or "failed"
Resolved(r) ==
    \E p \in Pollers :
        /\ pl[p].hash = out[r].res.TxHash
        /\ pl[p].ret = "ok"
        /\ pl[p].st.Status \in {"success", "failed"}

\* C4: after a DeployContract call returned a hash-only result, the repeated
\* GetTransactionStatus calls on that hash eventually return "success" or
\* "failed", also when other deployments from the same key run concurrently
C4_HashOnlyEventuallyResolved ==
    \A r \in Reqs : (pc[r] = "done" /\ TimedOut(r)) ~> Resolved(r)

\* C8: a status call on a hash for which the node has no receipt returns
\* "pending" with 0 confirmations and no error when the node answers the
\* query, and an error only when the query itself fails
C8_NoReceiptIsPending ==
    [][\A p \in Pollers : \A h \in KnownHashes :
          ReceiptsOf(h) = {} =>
            /\ StatusReceipt(p, h, TRUE) =>
                  /\ pl'[p].pc = "idle"
                  /\ pl'[p].ret = "ok" /\ pl'[p].err = ""
                  /\ pl'[p].st.Status = "pending"
                  /\ pl'[p].st.Confirmations = 0
            /\ StatusReceipt(p, h, FALSE) =>
                  /\ pl'[p].pc = "idle"
                  /\ pl'[p].ret = "err" /\ pl'[p].rpcFailed]_vars

\* a status call has returned "pending" while the transaction is in the mempool
C8_Witness ==
    \E p \in Pollers :
        /\ pl[p].ret = "ok" /\ pl[p].st.Status = "pending"
        /\ \E m \in mempool : TxHash(m) = pl[p].hash

\* C9: a status call that found a receipt returns "success" exactly when the
\* receipt's status flag is 1 and "failed" otherwise, with confirmations =
\* the block height it read - the receipt's block number, the height it
\* read being the chain's height at that moment
C9_MinedStatus ==
    /\ [](\A p \in Pollers :
            (pl[p].ret = "ok" /\ pl[p].st.Status # "pending") =>
                \E rec \in ReceiptsOf(pl[p].hash) :
                    /\ pl[p].st.Status = "success" <=> rec.status = 1
                    /\ pl[p].st.Status = "failed" <=> rec.status # 1
                    /\ pl[p].st.BlockNumber = rec.blockNumber
                    /\ pl[p].st.Confirmations = pl[p].header - rec.blockNumber)
    /\ [][\A p \in Pollers :
            /\ StatusHeader(p, TRUE) => pl'[p].header = height
            /\ \A h \in KnownHashes :
                 (ReceiptsOf(h) # {} /\ StatusReceipt(p, h, TRUE))
                     => pl'[p].pc = "header"]_vars

\* a status call made one block or more after the inclusion block has
\* returned "success" with that many confirmations
C9_Witness ==
    \E p \in Pollers :
        /\ pl[p].ret = "ok" /\ pl[p].st.Status = "success"
        /\ pl[p].st.Confirmations >= 1
        /\ pl[p].st.Confirmations = height - pl[p].st.BlockNumber

\* what the chain state says about hash now
ExpectedStatus(hash) ==
    IF \A b \in chain : TxHash(b.tx) # hash
    THEN [Status |-> "pending", BlockNumber |-> 0, Confirmations |-> 0,
          GasUsed |-> 0, Cost |-> ZeroCost]
    ELSE LET b == CHOOSE x \in chain : TxHash(x.tx) = hash IN
         [Status |-> IF b.status = 1 THEN "success" ELSE "failed",
          BlockNumber |-> b.blockNumber,
          Confirmations |-> height - b.blockNumber,
          GasUsed |-> b.gasUsed,
          Cost |-> [wei |-> b.tx.gasPrice * b.gasUsed, exp |-> WeiPerEthExp]]

\* C10: a status call changes nothing but the caller's own answer (node,
\* mempool, nonce, client, contract records and deployments stay as they
\* are), and the answer of a call is what the chain state says at the time
\* of the call, so two calls against the same chain state answer the same
C10_StatusReadOnly ==
    /\ [][pl' # pl => UNCHANGED <<nodeVars, envVars, records, reqVars>>]_vars
    /\ [][\A p \in Pollers :
            (/\ pl'[p] # pl[p]
             /\ pl'[p].pc = "idle" /\ pl'[p].ret = "ok"
             /\ pl'[p].st.Status = "pending" \/ pl'[p].header = height)
                => pl'[p].st = ExpectedStatus(pl'[p].hash)]_vars

\* two callers have asked about the same mined hash against the same chain
\* state and hold the same answer, while the contract record still lacks
\* the deployment (nothing wrote it back)
C10_Witness ==
    \E p, q \in Pollers :
        /\ p # q /\ pl[p].hash = pl[q].hash
        /\ pl[p].ret = "ok" /\ pl[q].ret = "ok"
        /\ pl[p].pc = "idle" /\ pl[q].pc = "idle"
        /\ pl[p].st.Status = "failed"
        /\ pl[p].header = height /\ pl[q].header = height
        /\ pl[p].st = pl[q].st
        /\ \E id \in ContractIds :
              records[id].exists /\ records[id].deployment_tx = EmptyHash

\* the receipt of the transaction that request r signed
ReceiptOfRequest(r) == CHOOSE b \in ReceiptsOf(TxHash(loc[r].tx)) : TRUE

\* C11: when the wait obtained the receipt, the result of DeployContract
\* carries the receipt's contract address, which is not empty, the receipt's
\* block number and gas used, and the cost gasUsed * (the gas price of the
\* transaction) over 10^18
C11_ReceiptFillsResult ==
    \A r \in Reqs :
        (Returned(r) /\ loc[r].gotReceipt) =>
            /\ out[r].ret = "ok"
            /\ ReceiptsOf(TxHash(loc[r].tx)) # {}
            /\ LET receipt == ReceiptOfRequest(r) IN
               /\ out[r].res.ContractAddress = receipt.contractAddress
               /\ out[r].res.ContractAddress # EmptyAddress
               /\ out[r].res.BlockNumber = receipt.blockNumber
               /\ out[r].res.GasUsed = receipt.gasUsed
               /\ out[r].res.Cost =
                     [wei |-> receipt.gasUsed * loc[r].tx.gasPrice,
                      exp |-> WeiPerEthExp]

\* a call has returned the result of a mined deployment whose gas price is
\* no longer the one the node suggests
C11_Witness ==
    \E r \in Reqs :
        /\ Returned(r) /\ loc[r].gotReceipt
        /\ out[r].res.Cost.wei > 0
        /\ out[r].res.BlockNumber >= 1
        /\ suggestedGasPrice # loc[r].tx.gasPrice

\* C12: a result that DeployContract returned has an empty contract address
\* exactly when the wait obtained no receipt
C12_AddressTellsReceipt ==
    \A r \in Reqs :
        out[r].ret = "ok" =>
            (out[r].res.ContractAddress = EmptyAddress <=> ~loc[r].gotReceipt)

\* one call has returned a hash-only result and another the result of a
\* deployment that was mined and reverted
C12_Witness ==
    \E a, b \in Reqs :
        /\ out[a].ret = "ok" /\ ~loc[a].gotReceipt
        /\ out[b].ret = "ok" /\ loc[b].gotReceipt
        /\ ReceiptsOf(TxHash(loc[b].tx)) # {}
        /\ ReceiptOfRequest(b).status = 0

\* C13: when the node does not take the submitted transaction, the call is
\* over with that step: DeployContract returns the error of the submission
\* and no result, the wait for a receipt never begins, and nothing of the
\* call is in the mempool
C13_RejectionReturnsError ==
    /\ [](\A r \in Reqs :
            ("send" \in hist[r].steps /\ ~loc[r].accepted) =>
                /\ pc[r] = "done"
                /\ out[r] = ErrReturn("failed to send transaction")
                /\ "wait" \notin hist[r].steps
                /\ ~loc[r].sendOk)
    /\ [][\A r \in Reqs :
            (pc[r] = "send" /\ pc'[r] # "send" /\ ~NodeAccepts(loc[r].tx)) =>
                /\ pc'[r] = "done"
                /\ out'[r] = ErrReturn("failed to send transaction")
                /\ mempool' = mempool]_vars

\* a call has returned the submission's error for a transaction whose nonce
\* another transaction had used up, or that was signed for another chain
C13_Witness ==
    \E r \in Reqs :
        /\ pc[r] = "done" /\ "send" \in hist[r].steps /\ ~loc[r].accepted
        /\ out[r].ret = "err"
        /\ \/ loc[r].tx.chainID # clientChainID
           \/ \E b \in chain : b.tx.nonce = loc[r].tx.nonce /\ b.tx # loc[r].tx

\* C14: every handler invocation that began responds in the end, mined or
\* not; and when the deployment context expired after the submission, what
\* DeployContract returned is the hash-only result with no error, so that
\* the handler did not take its "Failed to deploy contract" branch
C14_HandlerEventuallyResponds ==
    /\ \A r \in Reqs :
          (pc[r] # "idle") ~> (pc[r] = "done" /\ resp[r].code # 0)
    /\ [](\A r \in Reqs :
            (pc[r] = "done" /\ loc[r].sendOk /\ ~loc[r].gotReceipt) =>
                /\ DeployCtxExpired(r)
                /\ out[r] = OkReturn([ZeroResult EXCEPT
                                        !.TxHash = TxHash(loc[r].tx)])
                /\ resp[r].error # "Failed to deploy contract")

\* a handler has responded whose transaction was submitted and is still
\* pending, neither mined nor replaced
C14_Witness ==
    \E r \in Reqs :
        /\ pc[r] = "done" /\ resp[r].code # 0
        /\ loc[r].sendOk /\ ~loc[r].gotReceipt
        /\ loc[r].tx \in mempool

\* C15: the transaction that Client.DeployContract signs is bound to the
\* chain ID of its request when that is not 0 and to the chain ID the client
\* resolved at construction when it is 0; no step changes the client's
\* chain ID
C15_ChainIDResolution ==
    /\ [](\A r \in Reqs :
            Signed(r) =>
                loc[r].tx.chainID = IF rq[r].chainID # 0 THEN rq[r].chainID
                                    ELSE clientChainID)
    /\ [][clientChainID' = clientChainID]_vars

\* a call with ChainID 0 has signed for the chain of a client that is not on
\* chain 1
C15_Witness ==
    \E r \in Reqs :
        /\ Signed(r) /\ rq[r].chainID = 0
        /\ clientChainID # DefaultChainID
        /\ loc[r].tx.chainID = clientChainID

\* C16: a request that reached the handler with chain_id 0 (or without one)
\* is signed for the chain the client resolved at construction
C16_HandlerZeroUsesConnector ==
    \A r \in Reqs :
        (Signed(r) /\ rq[r].contractID \in ContractIds /\ rq[r].chainHint = 0)
            => loc[r].tx.chainID = clientChainID

\* the names of the contracts the source of request r compiles to
CompiledNames(r) == DOMAIN CompileContract(rq[r].code).contracts

\* C17: when the source compiles to several contracts and the caller gave a
\* contract name, the name of the artifact that DeployContract deploys
\* contains the caller's name, character for character
C17_DeployedNameContainsHint ==
    \A r \in Reqs :
        (/\ loc[r].name # NoName
         /\ Cardinality(CompiledNames(r)) > 1
         /\ rq[r].callerName # NoName)
            => Contains(loc[r].name, rq[r].callerName)

\* request r deployed the contract at address, and the deployment succeeded
DeployedBy(r, address) ==
    /\ out[r].ret = "ok" /\ loc[r].gotReceipt
    /\ out[r].res.ContractAddress = address
    /\ \E b \in ReceiptsOf(TxHash(loc[r].tx)) : b.status = 1

\* C18: VerifyContractSource on the address of a contract that
\* DeployContract deployed and that was mined with success, with the very
\* source it was deployed from, answers true
C18_VerifyOwnSource ==
    \A r \in Reqs :
        (vf.ret = "ok" /\ DeployedBy(r, vf.address) /\ vf.src = rq[r].code)
            => vf.result = TRUE

\* the source compiles, and none of its contracts is the code that request
\* r deployed
Unrelated(src, r) ==
    /\ ~SolcOutput(src).err
    /\ \A n \in DOMAIN SolcOutput(src).contracts :
          SolcOutput(src).contracts[n] # loc[r].tx.data

\* C19: VerifyContractSource with a source unrelated to the code deployed
\* at the address answers false and no error when the node answers, also
\* for a source one of whose artifacts has empty bytecode
C19_UnrelatedSourceIsFalse ==
    \A r \in Reqs :
        (/\ vf.ret # "none" /\ vf.err # "failed to get deployed bytecode"
         /\ DeployedBy(r, vf.address) /\ Unrelated(vf.src, r))
            => (vf.ret = "ok" /\ vf.result = FALSE)

\* C20 as stated: the answer is true exactly when the bytecode of some
\* compiled artifact is a prefix of the bytecode stored at the address,
\* empty bytecodes included
C20_TrueIffPrefix ==
    vf.ret = "ok" =>
        (vf.result <=>
            \E n \in DOMAIN SolcOutput(vf.src).contracts :
                HasPrefix(vf.deployed, SolcOutput(vf.src).contracts[n]))

\* C20 amended: the answer is true exactly when the bytecode stored at the
\* address is not empty and the bytecode of some compiled artifact is a
\* prefix of it; the stored bytecode is the one the node holds at the time
\* of the call
C20_TrueIffPrefixOfNonEmpty ==
    /\ [](vf.ret = "ok" =>
            (vf.result <=>
                /\ vf.deployed # << >>
                /\ \E n \in DOMAIN SolcOutput(vf.src).contracts :
                      HasPrefix(vf.deployed, SolcOutput(vf.src).contracts[n])))
    /\ [][(vf' # vf /\ vf'.ret = "ok") => vf'.deployed = CodeAt(vf'.address)]_vars

\* a call has answered true for a stored bytecode that is longer than the
\* artifact it starts with
C20_Witness ==
    /\ vf.ret = "ok" /\ vf.result
    /\ \E n \in DOMAIN SolcOutput(vf.src).contracts :
          LET code == SolcOutput(vf.src).contracts[n] IN
          /\ code # << >>
          /\ HasPrefix(vf.deployed, code)
          /\ Len(vf.deployed) > Len(code)

\* C21: EstimateDeploymentCost and VerifyContractSource are read-only.  No
\* step of either, in any interleaving with a deployment, signs a
\* transaction (the transactions signed are the deployments' own), submits
\* one, or changes the sender's nonce, the mempool or the chain; the
\* estimator uses the key for the sender's address alone
C21_ReadPathsChangeNothing ==
    /\ [][(est' # est \/ vf' # vf) =>
            /\ accountNonce' = accountNonce
            /\ mempool' = mempool
            /\ chain' = chain
            /\ \A r \in Reqs : loc'[r].tx = loc[r].tx]_vars
    /\ [](est.keyUse \in {"none", "address"})

\* an estimate and a verification have answered while the deployment's
\* transaction was pending
C21_Witness ==
    /\ est.ret = "ok" /\ vf.ret = "ok"
    /\ pc[1] = "wait" /\ loc[1].tx \in mempool

\* the compiler yields no contract for src, and no error
ZeroContracts(src) ==
    /\ src \in AllSources
    /\ ~SolcOutput(src).err
    /\ DOMAIN SolcOutput(src).contracts = {}

\* C22: for a source for which the compiler yields zero contracts,
\* DeployContract, EstimateDeploymentCost and VerifyContractSource each
\* return an error, none a normal result
C22_ZeroContractsIsError ==
    /\ \A r \in Reqs :
          (Returned(r) /\ ZeroContracts(rq[r].code)) => out[r].ret = "err"
    /\ (est.ret # "none" /\ ZeroContracts(est.src)) => est.ret = "err"
    /\ (vf.ret # "none" /\ ZeroContracts(vf.src)) => vf.ret = "err"

\* status caller p has the answer for the mined transaction whose receipt
\* the deployment r returned with
AnsweredFor(p, r) ==
    /\ pl[p].pc = "idle" /\ pl[p].ret = "ok"
    /\ pl[p].st.Status \in {"success", "failed"}
    /\ out[r].ret = "ok" /\ loc[r].gotReceipt
    /\ pl[p].hash = out[r].res.TxHash

\* C23: for a transaction that DeployContract deployed and saw mined, the
\* cost that GetTransactionStatus reports for its hash equals the cost in
\* the DeploymentResult: the receipt's gas used times the transaction's gas
\* price over 10^18, whatever the node suggests as gas price by then
C23_StatusCostIsResultCost ==
    \A p \in Pollers, r \in Reqs :
        AnsweredFor(p, r) =>
            /\ pl[p].st.Cost = out[r].res.Cost
            /\ pl[p].st.Cost = CostInEth(loc[r].tx.gasPrice, out[r].res.GasUsed)

\* a status answer and a result for the same transaction, after the
\* suggested gas price moved away from the transaction's
C23_Witness ==
    \E p \in Pollers, r \in Reqs :
        /\ AnsweredFor(p, r)
        /\ suggestedGasPrice # loc[r].tx.gasPrice
        /\ out[r].res.Cost # ZeroCost

\* the transactions the node holds, pending or mined
Submitted == mempool \cup {b.tx : b \in chain}

\* C24: every transaction DeployContract submits is a contract creation (no
\* recipient) that transfers no value, with the pending nonce and the
\* suggested gas price that the same call fetched and the gas limit of the
\* request that was passed to the client
C24_SubmittedTransactionShape ==
    /\ [](\A r \in Reqs : Signed(r) =>
            /\ loc[r].tx.to = EmptyAddress
            /\ loc[r].tx.value = 0
            /\ loc[r].tx.nonce = loc[r].nonce
            /\ loc[r].tx.gasLimit = rq[r].gasLimit
            /\ loc[r].tx.gasPrice = loc[r].gasPrice)
    /\ [](\A t \in Submitted : \E r \in Reqs : Signed(r) /\ t = loc[r].tx)
    /\ [][\A r \in Reqs :
            /\ loc'[r].nonce # loc[r].nonce => loc'[r].nonce = PendingNonceAt
            /\ loc'[r].gasPrice # loc[r].gasPrice
                  => loc'[r].gasPrice = SuggestGasPrice]_vars

\* the direct call submitted a creation with the gas limit it was given,
\* not the default, and with a nonce after another pending transaction's
C24_Witness ==
    /\ loc[1].tx \in mempool
    /\ loc[1].tx.gasLimit # DefaultGasLimit
    /\ loc[1].tx.nonce = 1
    /\ loc[1].tx.gasPrice # suggestedGasPrice

\* the bytecode of the artifact that the call of r picked
ArtifactCode(r) == SolcOutput(rq[r].code).contracts[loc[r].name]

\* C25: the payload of the transaction that DeployContract builds starts
\* with the artifact's bytecode: it is the bytecode itself when no
\* constructor arguments are given (empty string, empty JSON array), and
\* the bytecode followed by the ABI encoding of the arguments otherwise
C25_PayloadStartsWithBytecode ==
    \A r \in Reqs : Signed(r) =>
        /\ HasPrefix(loc[r].tx.data, ArtifactCode(r))
        /\ rq[r].ctorArgs \in {"", "[]"} => loc[r].tx.data = ArtifactCode(r)
        /\ rq[r].ctorArgs \notin {"", "[]"} =>
              loc[r].tx.data = ArtifactCode(r) \o
                  Pack(CtorInputs(loc[r].name),
                       ParseArguments(rq[r].ctorArgs).args).data

\* the direct call submitted the token's bytecode followed by the word
\* that encodes true
C25_Witness ==
    /\ loc[1].tx \in mempool
    /\ rq[1].ctorArgs = "[true]"
    /\ loc[1].tx.data = TokenCode \o <<1>>

\* the CompileContract call of c created its file and has returned
CompileReturned(c) ==
    cc[c].pc = "idle" /\ cc[c].ret # "none" /\ cc[c].file # NoFile

\* C26: once CompileContract has returned, by whichever exit it took after
\* the temporary file was created (write failure, close failure, compiler
\* failure, success), the temporary file of the call does not exist
C26_TempFileRemoved ==
    \A c \in Compilers : CompileReturned(c) => cc[c].file \notin tmpFiles

\* one call has returned by the write failure and another by success,
\* their files are gone, and nothing else is left
C26_Witness ==
    \E a, b \in Compilers :
        /\ CompileReturned(a) /\ cc[a].err = "failed to write to temporary file"
        /\ CompileReturned(b) /\ cc[b].ret = "ok"
        /\ tmpFiles = {}

\* C27: no call retries.  One DeployContract call submits its transaction
\* at most once and waits for the receipt at most once; one
\* GetTransactionStatus, EstimateDeploymentCost or VerifyContractSource
\* call issues each of its chain queries at most once, whatever the node
\* answers
C27_NoRetries ==
    /\ \A r \in Reqs : loc[r].sends <= 1 /\ loc[r].waits <= 1
    /\ \A p \in Pollers :
          /\ pl[p].queries.receipt <= 1
          /\ pl[p].queries.header <= 1
          /\ pl[p].queries.tx <= 1
    /\ est.gas <= 1 /\ est.price <= 1
    /\ vf.queries <= 1

\* a submission, an estimate and a verification have each failed at the
\* node and returned their error after the one attempt
C27_Witness ==
    /\ pc[1] = "done" /\ out[1].err = "failed to send transaction"
    /\ loc[1].sends = 1 /\ loc[1].waits = 0
    /\ est.pc = "idle" /\ est.err = "failed to estimate gas" /\ est.gas = 1
    /\ vf.err = "failed to get deployed bytecode" /\ vf.queries = 1

\* the transaction of hash was mined with receipt status 1
MinedWithSuccess(hash) == \E b \in ReceiptsOf(hash) : b.status = 1

\* C28: a result of DeployContract with a contract address, and a 200
\* response of the handler with a deployed address, each mean that the
\* deployment transaction was mined with receipt status 1; a later
\* GetTransactionStatus for the hash does not answer "failed"
C28_AddressMeansSuccess ==
    /\ \A r \in Reqs :
          (out[r].ret = "ok" /\ out[r].res.ContractAddress # EmptyAddress)
              => MinedWithSuccess(out[r].res.TxHash)
    /\ \A r \in Reqs :
          (resp[r].code = 200 /\ resp[r].contractAddress # EmptyAddress)
              => MinedWithSuccess(resp[r].txHash)
    /\ \A p \in Pollers, r \in Reqs :
          (AnsweredFor(p, r) /\ out[r].res.ContractAddress # EmptyAddress)
              => pl[p].st.Status # "failed"

\* C29: when DeployContract has returned an error, the node holds no
\* transaction that the call signed, neither pending nor mined; so also
\* when the submission failed because the context expired or the transport
\* failed
C29_ErrorMeansNotBroadcast ==
    \A r \in Reqs :
        (out[r].ret = "err" /\ Signed(r)) => loc[r].tx \notin Submitted

\* the errors of the steps of DeployContract that come before submission
PreSubmitErrors ==
    {"empty bytecode", "failed to get private key", "failed to get nonce",
     "failed to suggest gas price", "failed to parse constructor arguments",
     "failed to encode constructor arguments", "failed to sign transaction"}

\* the inputs of the call of r make a step before submission fail: no
\* key, arguments that do not parse, or arguments that the constructor of
\* the picked artifact does not take
InputFails(r) ==
    \/ ~keySet
    \/ ParseArguments(rq[r].ctorArgs).err
    \/ /\ Len(ParseArguments(rq[r].ctorArgs).args) > 0
       /\ Pack(CtorInputs(loc[r].name), ParseArguments(rq[r].ctorArgs).args).err

\* C30: a DeployContract call that fails at a step before submission
\* returns an error and has not submitted; no step of a call that has not
\* reached submission changes the sender's nonce or the mempool
C30_FailureBeforeSubmission ==
    /\ [](\A r \in Reqs :
            (Returned(r) /\ out[r].err \in PreSubmitErrors) =>
                /\ out[r].ret = "err" /\ out[r].res = ZeroResult
                /\ loc[r].sends = 0 /\ ~Signed(r))
    /\ [](\A r \in Reqs :
            (Returned(r) /\ rq[r].code \in ArgSources /\ InputFails(r)) =>
                /\ out[r].ret = "err"
                /\ loc[r].sends = 0)
    /\ [][\A r \in Reqs :
            ((loc'[r] # loc[r] \/ pc'[r] # pc[r]) /\ loc'[r].sends = 0) =>
                /\ mempool' = mempool
                /\ accountNonce' = accountNonce]_vars

\* the direct call has failed to encode its arguments, after it fetched
\* nonce and gas price, while another call's transaction was pending
C30_Witness ==
    /\ out[1].err = "failed to encode constructor arguments"
    /\ loc[1].nonce = 1 /\ loc[1].sends = 0
    /\ Cardinality(mempool) = 1

\* C31: a GetTransactionStatus call that found a receipt reports a
\* confirmation count that is not negative and not above the block height
\* it read, however the reads of receipt and header interleave with the
\* chain's progress and reorganisation
C31_ConfirmationsWithinHeight ==
    \A p \in Pollers :
        (pl[p].pc = "idle" /\ pl[p].ret = "ok"
            /\ pl[p].st.Status \in {"success", "failed"}) =>
            /\ pl[p].st.Confirmations >= 0
            /\ pl[p].st.Confirmations <= pl[p].header

\* C32: the DeployContract handler goes on to the chain only for a record
\* that exists and whose owner_id is the request's deployer_id.  A missing
\* record gets 404 and another user's 403, and then nothing was compiled,
\* signed or submitted and the record is as it was
C32_DeployOnlyByOwner ==
    /\ [](\A r \in Reqs : resp[r].code \in {403, 404} =>
            /\ hist[r].steps = {}
            /\ loc[r] = NoLocals
            /\ out[r] = NoReturn)
    /\ [][\A r \in Reqs : (pc[r] = "idle" /\ pc'[r] # "idle") =>
            LET contract == records[rq'[r].contractID]
                user == rq'[r].deployerID
            IN
            /\ resp'[r].code = 404 => ~contract.exists
            /\ resp'[r].code = 403 =>
                  contract.exists /\ contract.owner_id # user
            /\ ~contract.exists => resp'[r].code \in {400, 500, 404}
            /\ (contract.exists /\ contract.owner_id # user)
                  => resp'[r].code \in {400, 500, 403}
            /\ hist'[r].steps # {} =>
                  contract.exists /\ contract.owner_id = user
            /\ resp'[r].code \in {403, 404} =>
                  /\ records' = records
                  /\ mempool' = mempool
                  /\ chain' = chain]_vars

\* one request was refused as another user's and one found the record gone
C32_Witness ==
    \E a, b \in Reqs :
        /\ resp[a].code = 403 /\ rq[a].deployerID # OwnerId
        /\ resp[b].code = 404 /\ ~records[rq[b].contractID].exists

\* C33: status lookups never modify a contract record.  No step of a
\* status call changes the store, and once a deployment has returned, a
\* record that is still there keeps what it holds, also when the
\* deployment returned the hash alone and the transaction is mined later
C33_StatusKeepsRecord ==
    /\ [][pl' # pl => records' = records]_vars
    /\ [][\A id \in ContractIds :
            (pc[1] = "done" /\ records'[id].exists)
                => records'[id] = records[id]]_vars

\* the deployment returned the hash alone, the transaction was mined with
\* success afterwards and a status call has said so, and the record still
\* has no deployed address
C33_Witness ==
    /\ pc[1] = "done" /\ TimedOut(1)
    /\ \E p \in Pollers :
          /\ pl[p].pc = "idle" /\ pl[p].ret = "ok"
          /\ pl[p].hash = out[1].res.TxHash
          /\ pl[p].st.Status = "success"
    /\ records[rq[1].contractID].exists
    /\ records[rq[1].contractID].deployed_address = EmptyAddress

\* C34: after any sequence of CreateContract, UpdateContract, DeployContract
\* and DeleteContract requests, every existing record has the _id, owner_id
\* and created_at that it was created with
C34_CreationFieldsKept ==
    \A id \in RecordIds :
        records[id].exists => BirthOf(records[id]) = born[id]

\* the first record was updated by the body that names _id, then deployed,
\* while a record created later exists beside it
C34_Witness ==
    /\ records[1].exists
    /\ records[1].contract_code = "vault"
    /\ records[1].deployed_address # EmptyAddress
    /\ records[2].exists
    /\ records[2].updated_at > records[2].created_at

\* a record request of store caller s passed from pc to another position
StoreStep(s) == sreq'[s] # sreq[s]

\* C35: UpdateContract and DeleteContract change or remove only the record
\* they name and only for the user that is its owner; a request of another
\* user is answered 403 and a request for a missing record 404, also when
\* the record went between the ownership check and the write, and the store
\* stays as it was (a body that does not bind is answered 400 and a failure
\* of the store 500, with the store as it was)
C35_OnlyOwnerWrites ==
    [][\A s \in StoreCallers :
          (StoreStep(s) /\ sreq'[s].op \in {"update", "delete"}) =>
              LET id == sreq'[s].id
                  user == sreq'[s].user
                  code == sreq'[s].code
              IN /\ records' # records =>
                       /\ id \in RecordIds
                       /\ records[id].exists
                       /\ records[id].owner_id = user
                       /\ code = 200
                       /\ \A other \in RecordIds \ {id} :
                              records'[other] = records[other]
                 /\ code = 200 =>
                       /\ records[id].exists
                       /\ records[id].owner_id = user
                       /\ sreq[s].op = "delete" => ~records'[id].exists
                 /\ code = 403 =>
                       records[id].exists /\ records[id].owner_id # user
                 /\ code = 404 => ~records[id].exists
                 /\ (id \in RecordIds /\ code \notin {400, 500}) =>
                       /\ ~records[id].exists => code = 404
                       /\ (records[id].exists
                             /\ records[id].owner_id # user) => code = 403
      ]_vars

\* an update passed the ownership check, another caller's delete removed
\* the record, and the update's write was answered 404
C35_Witness ==
    \E s, t \in StoreCallers :
        /\ sreq[s].op = "update" /\ sreq[s].code = 404
        /\ sreq[t].op = "delete" /\ sreq[t].code = 200
        /\ sreq[s].id = sreq[t].id
        /\ sreq[s].user = sreq[t].user

\* C36: after logout, currentUser stays null and the stored authToken and
\* user stay absent until a login or register that began after the logout
\* succeeds
C36_LogoutNotUndone ==
    loggedOut => currentUser = NoUser /\ localStorage = NoSession

\* the Dashboard rests: no list fetch awaits its response, loading is false
Quiescent == listsInFlight = 0 /\ ~contractsLoading

\* C37: after the Dashboard mounted for a logged-in user, the fetches end:
\* from some time on no list fetch is in flight and loading stays false
C37_EventuallyQuiescent == dashboard.mounted ~> []Quiescent

====
